---- MODULE Spec2Model ----
(***************************************************************************)
(* Resume Analyzer: the text-matching core of streamlit_app.py and         *)
(* utils/nlp.py (tokenizer, similarity scorer, keyword comparator).        *)
(*                                                                         *)
(* A character is a one-character string, a word is a tuple of characters. *)
(* A text is a tuple of runs [w |-> word, n |-> k]: the word w written k   *)
(* times; all the words of a text are separated by single spaces.  A word  *)
(* holds no whitespace, or nothing but whitespace.  A token list is a      *)
(* tuple of runs [t |-> token, n |-> k] in the same way.                   *)
(***************************************************************************)
EXTENDS Integers, Sequences, FiniteSets, TLC

----------------------------------------------------------------------------
(* Characters *)

LowerSeq ==
  <<"a","b","c","d","e","f","g","h","i","j","k","l","m",
    "n","o","p","q","r","s","t","u","v","w","x","y","z">>

UpperSeq ==
  <<"A","B","C","D","E","F","G","H","I","J","K","L","M",
    "N","O","P","Q","R","S","T","U","V","W","X","Y","Z">>

DigitSeq == <<"0","1","2","3","4","5","6","7","8","9">>

Range(s) == {s[i] : i \in DOMAIN s}

LowerChars == Range(LowerSeq)

UpperChars == Range(UpperSeq)

DigitChars == Range(DigitSeq)

SpaceChars == {" ", "\t", "\n", "\r", "\f"}

IndexOf(s, c) == CHOOSE i \in DOMAIN s : s[i] = c

(* str.lower() on one character and on a word *)
ToLower(c) == IF c \in UpperChars THEN LowerSeq[IndexOf(UpperSeq, c)] ELSE c

Lower(w) == [i \in DOMAIN w |-> ToLower(w[i])]

(* the code point of a character, which orders Python strings *)
PunctOrd ==
  [c \in {"\t", "\n", "\f", "\r", " ", "!", "#", "'", "+", "-", ".", "_"} |->
     CASE c = "\t" -> 9  [] c = "\n" -> 10 [] c = "\f" -> 12 [] c = "\r" -> 13
       [] c = " " -> 32  [] c = "!" -> 33  [] c = "#" -> 35  [] c = "'" -> 39
       [] c = "+" -> 43  [] c = "-" -> 45  [] c = "." -> 46  [] c = "_" -> 95]

Ord(c) ==
  IF c \in DigitChars THEN 47 + IndexOf(DigitSeq, c)
  ELSE IF c \in UpperChars THEN 64 + IndexOf(UpperSeq, c)
  ELSE IF c \in LowerChars THEN 96 + IndexOf(LowerSeq, c)
  ELSE PunctOrd[c]

(* s < t for Python strings: the first differing character decides, a     *)
(* proper prefix is smaller                                                *)
RECURSIVE StrLess(_, _)
StrLess(s, t) ==
  IF t = <<>> THEN FALSE
  ELSE IF s = <<>> THEN TRUE
  ELSE IF s[1] # t[1] THEN Ord(s[1]) < Ord(t[1])
  ELSE StrLess(Tail(s), Tail(t))

----------------------------------------------------------------------------
(* Regular expressions of the shape \b[class]+\b *)

(* \w *)
WordClass == LowerChars \cup UpperChars \cup DigitChars \cup {"_"}

(* TOKEN_RE = \b[a-zA-Z\+\#0-9\-]+\b *)
TOKEN_RE == LowerChars \cup UpperChars \cup DigitChars \cup {"+", "#", "-"}

(* \b at position i of s: between s[i-1] and s[i], the ends count as \W *)
IsWordAt(s, i) == i \in DOMAIN s /\ s[i] \in WordClass

Boundary(s, i) == IsWordAt(s, i - 1) # IsWordAt(s, i)

(* the first position from i on whose character is outside cls *)
RECURSIVE RunEnd(_, _, _)
RunEnd(cls, s, i) ==
  IF i \in DOMAIN s /\ s[i] \in cls THEN RunEnd(cls, s, i + 1) ELSE i

(* re.findall of \b[cls]{minLen,}\b in s from position i: the match is    *)
(* greedy and backs off to the last position where \b holds; the scan     *)
(* resumes after a match, or at the next character                        *)
RECURSIVE FindAllFrom(_, _, _, _)
FindAllFrom(cls, minLen, s, i) ==
  IF i > Len(s) THEN <<>>
  ELSE IF s[i] \notin cls \/ ~Boundary(s, i)
    THEN FindAllFrom(cls, minLen, s, i + 1)
  ELSE LET ends == {e \in (i + minLen)..RunEnd(cls, s, i) : Boundary(s, e)}
       IN  IF ends = {} THEN FindAllFrom(cls, minLen, s, i + 1)
           ELSE LET e == CHOOSE x \in ends : \A y \in ends : y <= x
                IN  <<SubSeq(s, i, e - 1)>> \o FindAllFrom(cls, minLen, s, e)

FindAll(cls, minLen, s) == FindAllFrom(cls, minLen, s, 1)

----------------------------------------------------------------------------
(* Text normalization and tokenization (streamlit_app.py) *)

STOPWORDS ==
  {
    <<"a">>, <<"a","b","o","u","t">>, <<"a","b","o","v","e">>, <<"a","f","t","e","r">>,
    <<"a","g","a","i","n">>, <<"a","g","a","i","n","s","t">>, <<"a","l","l">>, <<"a","m">>,
    <<"a","n">>, <<"a","n","d">>, <<"a","n","y">>, <<"a","r","e">>, <<"a","r","e","n","'","t">>,
    <<"a","s">>, <<"a","t">>, <<"b","e">>, <<"b","e","c","a","u","s","e">>, <<"b","e","e","n">>,
    <<"b","e","f","o","r","e">>, <<"b","e","i","n","g">>, <<"b","e","l","o","w">>,
    <<"b","e","t","w","e","e","n">>, <<"b","o","t","h">>, <<"b","u","t">>, <<"b","y">>,
    <<"c","o","u","l","d">>, <<"c","o","u","l","d","n","'","t">>, <<"d","i","d">>,
    <<"d","i","d","n","'","t">>, <<"d","o">>, <<"d","o","e","s">>, <<"d","o","e","s","n","'","t">>,
    <<"d","o","i","n","g">>, <<"d","o","n","'","t">>, <<"d","o","w","n">>,
    <<"d","u","r","i","n","g">>, <<"e","a","c","h">>, <<"f","e","w">>, <<"f","o","r">>,
    <<"f","r","o","m">>, <<"f","u","r","t","h","e","r">>, <<"h","a","d">>,
    <<"h","a","d","n","'","t">>, <<"h","a","s">>, <<"h","a","s","n","'","t">>, <<"h","a","v","e">>,
    <<"h","a","v","e","n","'","t">>, <<"h","a","v","i","n","g">>, <<"h","e">>, <<"h","e","'","d">>,
    <<"h","e","'","l","l">>, <<"h","e","'","s">>, <<"h","e","r">>, <<"h","e","r","e">>,
    <<"h","e","r","e","'","s">>, <<"h","e","r","s">>, <<"h","e","r","s","e","l","f">>,
    <<"h","i","m">>, <<"h","i","m","s","e","l","f">>, <<"h","i","s">>, <<"h","o","w">>,
    <<"h","o","w","'","s">>, <<"i">>, <<"i","'","d">>, <<"i","'","l","l">>, <<"i","'","m">>,
    <<"i","'","v","e">>, <<"i","f">>, <<"i","n">>, <<"i","n","t","o">>, <<"i","s">>,
    <<"i","s","n","'","t">>, <<"i","t">>, <<"i","t","'","s">>, <<"i","t","s">>,
    <<"i","t","s","e","l","f">>, <<"l","e","t","'","s">>, <<"m","e">>, <<"m","o","r","e">>,
    <<"m","o","s","t">>, <<"m","u","s","t","n","'","t">>, <<"m","y">>, <<"m","y","s","e","l","f">>,
    <<"n","o">>, <<"n","o","r">>, <<"n","o","t">>, <<"o","f">>, <<"o","f","f">>, <<"o","n">>,
    <<"o","n","c","e">>, <<"o","n","l","y">>, <<"o","r">>, <<"o","t","h","e","r">>,
    <<"o","u","g","h","t">>, <<"o","u","r">>, <<"o","u","r","s">>,
    <<"o","u","r","s","e","l","v","e","s">>, <<"o","u","t">>, <<"o","v","e","r">>, <<"o","w","n">>,
    <<"s">>, <<"s","a","m","e">>, <<"s","h","a","n","'","t">>, <<"s","h","e">>,
    <<"s","h","e","'","d">>, <<"s","h","e","'","l","l">>, <<"s","h","e","'","s">>,
    <<"s","h","o","u","l","d">>, <<"s","h","o","u","l","d","n","'","t">>, <<"s","o">>,
    <<"s","o","m","e">>, <<"s","u","c","h">>, <<"t">>, <<"t","h","a","n">>, <<"t","h","a","t">>,
    <<"t","h","a","t","'","s">>, <<"t","h","e">>, <<"t","h","e","i","r">>,
    <<"t","h","e","i","r","s">>, <<"t","h","e","m">>, <<"t","h","e","m","s","e","l","v","e","s">>,
    <<"t","h","e","n">>, <<"t","h","e","r","e">>, <<"t","h","e","r","e","'","s">>,
    <<"t","h","e","s","e">>, <<"t","h","e","y">>, <<"t","h","e","y","'","d">>,
    <<"t","h","e","y","'","l","l">>, <<"t","h","e","y","'","r","e">>,
    <<"t","h","e","y","'","v","e">>, <<"t","h","i","s">>, <<"t","h","o","s","e">>,
    <<"t","h","r","o","u","g","h">>, <<"t","o">>, <<"t","o","o">>, <<"u","n","d","e","r">>,
    <<"u","n","t","i","l">>, <<"u","p">>, <<"v","e","r","y">>, <<"w","a","s">>,
    <<"w","a","s","n","'","t">>, <<"w","e">>, <<"w","e","'","d">>, <<"w","e","'","l","l">>,
    <<"w","e","'","r","e">>, <<"w","e","'","v","e">>, <<"w","e","r","e">>,
    <<"w","e","r","e","n","'","t">>, <<"w","h","a","t">>, <<"w","h","a","t","'","s">>,
    <<"w","h","e","n">>, <<"w","h","e","n","'","s">>, <<"w","h","e","r","e">>,
    <<"w","h","e","r","e","'","s">>, <<"w","h","i","c","h">>, <<"w","h","i","l","e">>,
    <<"w","h","o">>, <<"w","h","o","'","s">>, <<"w","h","o","m">>, <<"w","h","y">>,
    <<"w","h","y","'","s">>, <<"w","i","t","h">>, <<"w","o","n","'","t">>, <<"w","o","u","l","d">>,
    <<"w","o","u","l","d","n","'","t">>, <<"y","o","u">>, <<"y","o","u","'","d">>,
    <<"y","o","u","'","l","l">>, <<"y","o","u","'","r","e">>, <<"y","o","u","'","v","e">>,
    <<"y","o","u","r">>, <<"y","o","u","r","s">>, <<"y","o","u","r","s","e","l","f">>,
    <<"y","o","u","r","s","e","l","v","e","s">>
  }


AlnumLower == LowerChars \cup DigitChars

(* re.sub(r'^[^a-z0-9]+|[^a-z0-9]+$', '', w) *)
StripEnds(w) ==
  LET keep == {i \in DOMAIN w : w[i] \in AlnumLower}
  IN  IF keep = {} THEN <<>>
      ELSE LET lo == CHOOSE i \in keep : \A j \in keep : i <= j
               hi == CHOOSE i \in keep : \A j \in keep : j <= i
           IN  SubSeq(w, lo, hi)

Suffixes == << <<"i","n","g","s">>, <<"i","n","g">>, <<"e","d">>, <<"e","s">>, <<"s">> >>

EndsWith(w, suf) ==
  Len(w) >= Len(suf) /\ SubSeq(w, Len(w) - Len(suf) + 1, Len(w)) = suf

(* StripSuffix giving up at the first suffix that ends w *)
RECURSIVE StripSuffix_FirstMatch(_, _)
StripSuffix_FirstMatch(w, i) ==
  IF i > Len(Suffixes) THEN w
  ELSE IF EndsWith(w, Suffixes[i])
    THEN IF Len(w) - Len(Suffixes[i]) >= 2 THEN SubSeq(w, 1, Len(w) - Len(Suffixes[i])) ELSE w
  ELSE StripSuffix_FirstMatch(w, i + 1)

(* the loop over the suffixes: the first one that ends w and leaves at    *)
(* least two characters is removed                                        *)
RECURSIVE StripSuffix(_, _)
StripSuffix(w, i) ==
  IF i > Len(Suffixes) THEN w
  ELSE IF EndsWith(w, Suffixes[i]) /\ Len(w) - Len(Suffixes[i]) >= 2
    THEN SubSeq(w, 1, Len(w) - Len(Suffixes[i]))
  ELSE StripSuffix(w, i + 1)

normalize_word(w) == StripSuffix(StripEnds(Lower(w)), 1)

(* KeepToken without the test of the length *)
KeepToken_AnyLength(t) == t # <<>> /\ t \notin STOPWORDS

KeepToken(t) == t # <<>> /\ t \notin STOPWORDS /\ Len(t) >= 2

(* tokenize applied to one word *)
TokenizeWord(w) ==
  LET tokens == FindAll(TOKEN_RE, 1, w)
  IN  SelectSeq([i \in DOMAIN tokens |-> normalize_word(tokens[i])], KeepToken)

(* k copies of the tuple s *)
RECURSIVE Repeat(_, _)
Repeat(s, k) == IF k = 0 THEN <<>> ELSE s \o Repeat(s, k - 1)

(* RunTokens with the repetitions of a word counted once *)
RunTokens_Once(toks, k) == [i \in DOMAIN toks |-> [t |-> toks[i], n |-> 1]]

(* the tokens of the word w written k times, toks being those of w *)
RunTokens(toks, k) ==
  IF toks = <<>> THEN <<>>
  ELSE IF Len(toks) = 1 THEN <<[t |-> toks[1], n |-> k]>>
  ELSE Repeat([i \in DOMAIN toks |-> [t |-> toks[i], n |-> 1]], k)

WordsOf(text) == {text[i].w : i \in DOMAIN text}

(* the tokens of a text, analysis[w] being those of its word w *)
RECURSIVE TokensOf(_, _)
TokensOf(analysis, text) ==
  IF text = <<>> THEN <<>>
  ELSE RunTokens(analysis[Head(text).w], Head(text).n) \o TokensOf(analysis, Tail(text))

tokenize(text) ==
  IF text = <<>> THEN <<>> ELSE TokensOf([w \in WordsOf(text) |-> TokenizeWord(w)], text)

----------------------------------------------------------------------------
(* Keyword extraction (streamlit_app.py) *)

(* Counter(tokens): a tuple of [k |-> token, c |-> count] in the order in *)
(* which the tokens were first seen (a dict keeps insertion order)        *)
RECURSIVE CounterFrom(_, _)
CounterFrom(toks, acc) ==
  IF toks = <<>> THEN acc
  ELSE LET r == Head(toks)
           at == {j \in DOMAIN acc : acc[j].k = r.t}
       IN  IF at = {} THEN CounterFrom(Tail(toks), Append(acc, [k |-> r.t, c |-> r.n]))
           ELSE LET j == CHOOSE x \in at : TRUE
                IN  CounterFrom(Tail(toks), [acc EXCEPT ![j].c = @ + r.n])

Counter(toks) == CounterFrom(toks, <<>>)

Keys(counts) == {counts[i].k : i \in DOMAIN counts}

(* SortByCount in ascending order: reverse=True left out *)
RECURSIVE SortByCount_Ascending(_, _)
SortByCount_Ascending(items, acc) ==
  IF items = <<>> THEN acc
  ELSE LET x == Head(items)
           before == {j \in DOMAIN acc : acc[j].c <= x.c}
           p == Cardinality(before)
       IN  SortByCount_Ascending(Tail(items),
                                 SubSeq(acc, 1, p) \o <<x>> \o SubSeq(acc, p + 1, Len(acc)))

(* SortByCount with an unstable sort: of equal counts the later comes     *)
(* first                                                                  *)
RECURSIVE SortByCount_Unstable(_, _)
SortByCount_Unstable(items, acc) ==
  IF items = <<>> THEN acc
  ELSE LET x == Head(items)
           before == {j \in DOMAIN acc : acc[j].c > x.c}
           p == Cardinality(before)
       IN  SortByCount_Unstable(Tail(items),
                                SubSeq(acc, 1, p) \o <<x>> \o SubSeq(acc, p + 1, Len(acc)))

(* sorted(items, key=count, reverse=True): stable, so equal counts keep   *)
(* their first-seen order                                                  *)
RECURSIVE SortByCount(_, _)
SortByCount(items, acc) ==
  IF items = <<>> THEN acc
  ELSE LET x == Head(items)
           before == {j \in DOMAIN acc : acc[j].c >= x.c}
           p == Cardinality(before)
       IN  SortByCount(Tail(items),
                       SubSeq(acc, 1, p) \o <<x>> \o SubSeq(acc, p + 1, Len(acc)))

Take(s, k) == SubSeq(s, 1, IF k < Len(s) THEN k ELSE Len(s))

most_common(counts, k) == Take(SortByCount(counts, <<>>), k)

extract_top_terms(text, k) ==
  LET toks == tokenize(text)
      most == most_common(Counter(toks), k)
  IN  IF toks = <<>> THEN [terms |-> <<>>, freq |-> <<>>]
      ELSE [terms |-> [i \in DOMAIN most |-> most[i].k], freq |-> most]

(* top_n of the call in categorize_and_compare *)
CompareTopN == 150

(* categorize_and_compare with matched_simple tested against the counts   *)
(* of the job description                                                 *)
categorize_and_compare_JdCounts(resume_text, jd_text) ==
  LET r_counts == Counter(tokenize(resume_text))
      top == extract_top_terms(jd_text, CompareTopN)
      InJd(t) == t \in Keys(Counter(tokenize(jd_text)))
      NotInResume(t) == t \notin Keys(r_counts)
  IN  [matched_simple |-> SelectSeq(top.terms, InJd),
       missing_simple |-> SelectSeq(top.terms, NotInResume),
       jd_freq |-> top.freq,
       r_counts |-> r_counts]

(* categorize_and_compare with the two tests exchanged *)
categorize_and_compare_Exchanged(resume_text, jd_text) ==
  LET r_counts == Counter(tokenize(resume_text))
      top == extract_top_terms(jd_text, CompareTopN)
      InResume(t) == t \in Keys(r_counts)
      NotInResume(t) == t \notin Keys(r_counts)
  IN  [matched_simple |-> SelectSeq(top.terms, NotInResume),
       missing_simple |-> SelectSeq(top.terms, InResume),
       jd_freq |-> top.freq,
       r_counts |-> r_counts]

(* The fields matched_simple, missing_simple, jd_freq and r_counts of the *)
(* result.  The fields hard, soft and verb are built from the same token  *)
(* lists by membership tests and sums on strings and dictionaries, which  *)
(* do not raise and do not enter the four fields here.                    *)
categorize_and_compare(resume_text, jd_text) ==
  LET r_counts == Counter(tokenize(resume_text))
      top == extract_top_terms(jd_text, CompareTopN)
      InResume(t) == t \in Keys(r_counts)
      NotInResume(t) == t \notin Keys(r_counts)
  IN  [matched_simple |-> SelectSeq(top.terms, InResume),
       missing_simple |-> SelectSeq(top.terms, NotInResume),
       jd_freq |-> top.freq,
       r_counts |-> r_counts]

----------------------------------------------------------------------------
(* utils/nlp.py: get_keywords *)

(* \b[a-z0-9\+\#\-\.]+\b *)
KeywordClass == LowerChars \cup DigitChars \cup {"+", "#", "-", "."}

KeywordsOfWord(w) == FindAll(KeywordClass, 1, Lower(w))

(* set(re.findall(..., text.lower())) *)
WordSet(text) ==
  {r.t : r \in Range(TokensOf([w \in WordsOf(text) |-> KeywordsOfWord(w)], text))}

(* sorted(list(S)): ascending by code points *)
RECURSIVE Sorted(_)
Sorted(S) ==
  IF S = {} THEN <<>>
  ELSE LET m == CHOOSE x \in S : \A y \in S : y = x \/ StrLess(x, y)
       IN  <<m>> \o Sorted(S \ {m})

(* get_keywords with missing taken from all the words of the job          *)
(* description                                                            *)
get_keywords_NoDifference(resume_text, jd_text, k) ==
  LET r_words == WordSet(resume_text)
      jd_words == WordSet(jd_text)
  IN  [matched |-> Take(Sorted(jd_words \cap r_words), k),
       missing |-> Take(Sorted(jd_words), k)]

get_keywords(resume_text, jd_text, k) ==
  LET r_words == WordSet(resume_text)
      jd_words == WordSet(jd_text)
  IN  [matched |-> Take(Sorted(jd_words \cap r_words), k),
       missing |-> Take(Sorted(jd_words \ r_words), k)]

----------------------------------------------------------------------------
(* Exact arithmetic on naturals of any size: a tuple of digits in base    *)
(* 10^4, least significant first, no leading zero digit (0 is <<>>).      *)

Limb(x) == x % 10000

Carry(x) == x \div 10000

RECURSIVE BigOf(_)
BigOf(x) == IF x = 0 THEN <<>> ELSE <<Limb(x)>> \o BigOf(Carry(x))

RECURSIVE BigAddC(_, _, _)
BigAddC(a, b, c) ==
  IF a = <<>> /\ b = <<>> THEN BigOf(c)
  ELSE LET x == (IF a = <<>> THEN 0 ELSE Head(a)) + (IF b = <<>> THEN 0 ELSE Head(b)) + c
       IN  <<Limb(x)>> \o BigAddC(IF a = <<>> THEN <<>> ELSE Tail(a),
                                  IF b = <<>> THEN <<>> ELSE Tail(b), Carry(x))

BigAdd(a, b) == BigAddC(a, b, 0)

(* a * m + c for a factor m > 0 small enough for 9999 * m + c to be in    *)
(* the integers of the checker: a digit, or any m up to 200000            *)
RECURSIVE BigMulLimb(_, _, _)
BigMulLimb(a, m, c) ==
  IF a = <<>> THEN BigOf(c)
  ELSE LET x == Head(a) * m + c
       IN  <<Limb(x)>> \o BigMulLimb(Tail(a), m, Carry(x))

RECURSIVE BigMul(_, _)
BigMul(a, b) ==
  IF a = <<>> \/ b = <<>> THEN <<>>
  ELSE LET low == IF Head(b) = 0 THEN <<>> ELSE BigMulLimb(a, Head(b), 0)
           high == BigMul(a, Tail(b))
       IN  BigAdd(low, IF high = <<>> THEN <<>> ELSE <<0>> \o high)

(* a * m for any natural m *)
BigTimes(a, m) ==
  IF m = 0 THEN <<>>
  ELSE IF m <= 200000 THEN BigMulLimb(a, m, 0)
  ELSE BigMul(a, BigOf(m))

BigLeq(a, b) ==
  IF Len(a) # Len(b) THEN Len(a) < Len(b)
  ELSE LET d == {i \in DOMAIN a : a[i] # b[i]}
       IN  d = {} \/ LET i == CHOOSE x \in d : \A y \in d : y <= x IN a[i] < b[i]

----------------------------------------------------------------------------
(* round(sim * 100, 2), in hundredths, for sim = sqrt(num / den) with den *)
(* > 0.  The value is at least k - 1/2 hundredths exactly when            *)
(* (2k - 1)^2 * den <= (2 * 10^4)^2 * num; an exact half goes to the even *)
(* neighbour.  (The code works in binary floating point, whose error of   *)
(* some 1e-16 moves the result only within that distance of a half.)      *)

(* HalfReached with the value rounded up: k - 1 is enough for k *)
HalfReached_RoundedUp(k, scaled, den) ==
  LET m == 2 * k - 2
  IN  BigLeq(BigTimes(BigTimes(den, m), m), scaled)

(* scaled is (2 * 10^4)^2 * num *)
HalfReached(k, scaled, den) ==
  LET m == 2 * k - 1
  IN  BigLeq(BigTimes(BigTimes(den, m), m), scaled)

HalfExact(k, scaled, den) ==
  LET m == 2 * k - 1
  IN  BigTimes(BigTimes(den, m), m) = scaled

(* the first power of two at which the half is not reached *)
RECURSIVE RoundUpper(_, _, _)
RoundUpper(k, scaled, den) ==
  IF HalfReached(k, scaled, den) THEN RoundUpper(2 * k, scaled, den) ELSE k

(* the half is reached at lo (or lo = 0) and not at hi *)
RECURSIVE RoundBetween(_, _, _, _)
RoundBetween(lo, hi, scaled, den) ==
  IF hi - lo <= 1 THEN lo
  ELSE LET mid == (lo + hi) \div 2
       IN  IF HalfReached(mid, scaled, den) THEN RoundBetween(mid, hi, scaled, den)
           ELSE RoundBetween(lo, mid, scaled, den)

(* a quotient of at most 1 gives at most 10000 hundredths: the search     *)
(* goes above them only when the half after them is reached               *)
RoundHundredths(num, den) ==
  LET scaled == BigMul(BigOf(400000000), num)
      above == HalfReached(10001, scaled, den)
      hi == IF above THEN RoundUpper(16384, scaled, den) ELSE 10001
      k == RoundBetween(IF above THEN hi \div 2 ELSE 0, hi, scaled, den)
  IN  IF k > 0 /\ k % 2 = 1 /\ HalfExact(k, scaled, den) THEN k - 1 ELSE k

----------------------------------------------------------------------------
(* Cosine similarity of two term-frequency vectors *)

CountOf(counts, t) ==
  LET at == {i \in DOMAIN counts : counts[i].k = t}
  IN  IF at = {} THEN 0 ELSE counts[CHOOSE i \in at : TRUE].c

RECURSIVE SumOver(_, _)
SumOver(f, S) ==
  IF S = {} THEN 0
  ELSE LET x == CHOOSE y \in S : TRUE IN f[x] + SumOver(f, S \ {x})

(* Dot with every token counted at one index of the vectors *)
Dot_OneIndex(rc, jc, S) ==
  SumOver([t \in S |-> CountOf(rc, t)], S) * SumOver([t \in S |-> CountOf(jc, t)], S)

(* np.dot of the two count vectors over the tokens in S *)
Dot(rc, jc, S) == SumOver([t \in S |-> CountOf(rc, t) * CountOf(jc, t)], S)

(* SumSq with the counts summed, not their squares *)
SumSq_NotSquared(rc, S) == SumOver([t \in S |-> CountOf(rc, t)], S)

(* the squared Euclidean norm of a count vector over the tokens in S *)
SumSq(rc, S) == SumOver([t \in S |-> CountOf(rc, t) * CountOf(rc, t)], S)

(* TokenCosine with only the resume vector divided by its norm *)
TokenCosine_OneNorm(r_tokens, j_tokens) ==
  LET rc == Counter(r_tokens)
      jc == Counter(j_tokens)
      vocab == Keys(rc) \cup Keys(jc)
      rn == SumSq(rc, vocab)
      jn == SumSq(jc, vocab)
      dot == Dot(rc, jc, vocab)
  IN  IF vocab = {} THEN 0
      ELSE IF rn = 0 \/ jn = 0 THEN 0
      ELSE RoundHundredths(BigMul(BigOf(dot), BigOf(dot)), BigOf(rn))

(* the fallback of compute_similarity_score: both vectors are divided by  *)
(* their norms, the score is 100 times their dot product                  *)
TokenCosine(r_tokens, j_tokens) ==
  LET rc == Counter(r_tokens)
      jc == Counter(j_tokens)
      vocab == Keys(rc) \cup Keys(jc)
      rn == SumSq(rc, vocab)
      jn == SumSq(jc, vocab)
      dot == Dot(rc, jc, vocab)
  IN  IF vocab = {} THEN 0
      ELSE IF rn = 0 \/ jn = 0 THEN 0
      ELSE RoundHundredths(BigMul(BigOf(dot), BigOf(dot)), BigMul(BigOf(rn), BigOf(jn)))

(* TfidfVectorizer on two documents: idf = ln(3 / (1 + df)) + 1, which is *)
(* 1 for a term of both documents and 1 + ln 1.5 for a term of one; the   *)
(* square of the latter is IdfSqNum / IdfSqDen to eight digits            *)
IdfSqNum == 19753322

IdfSqDen == 10000000

(* IdfSqDen times the squared norm of the tf-idf row of rc *)
TfidfNormSq(rc, jc) ==
  LET shared == Keys(rc) \cap Keys(jc)
  IN  BigAdd(BigMul(BigOf(IdfSqDen), BigOf(SumSq(rc, shared))),
             BigMul(BigOf(IdfSqNum), BigOf(SumSq(rc, Keys(rc) \ shared))))

(* TfidfCosine with the dot product divided by the norm of the first row  *)
(* alone                                                                  *)
TfidfCosine_FirstNorm(r_terms, j_terms) ==
  LET rc == Counter(r_terms)
      jc == Counter(j_terms)
      shared == Keys(rc) \cap Keys(jc)
      dot == BigMul(BigOf(IdfSqDen), BigOf(Dot(rc, jc, shared)))
  IN  IF Keys(rc) \cup Keys(jc) = {} THEN [raised |-> TRUE, value |-> 0]
      ELSE IF rc = <<>> \/ jc = <<>> THEN [raised |-> FALSE, value |-> 0]
      ELSE [raised |-> FALSE,
            value |-> RoundHundredths(BigMul(dot, dot),
                                      BigMul(TfidfNormSq(rc, jc), TfidfNormSq(rc, jc)))]

(* fit_transform and cosine_similarity on the analysed documents:         *)
(* ValueError on an empty vocabulary, 0 for a row without terms           *)
TfidfCosine(r_terms, j_terms) ==
  LET rc == Counter(r_terms)
      jc == Counter(j_terms)
      shared == Keys(rc) \cap Keys(jc)
      dot == BigMul(BigOf(IdfSqDen), BigOf(Dot(rc, jc, shared)))
  IN  IF Keys(rc) \cup Keys(jc) = {} THEN [raised |-> TRUE, value |-> 0]
      ELSE IF rc = <<>> \/ jc = <<>> THEN [raised |-> FALSE, value |-> 0]
      ELSE [raised |-> FALSE,
            value |-> RoundHundredths(BigMul(dot, dot),
                                      BigMul(TfidfNormSq(rc, jc), TfidfNormSq(jc, rc)))]

----------------------------------------------------------------------------
(* Similarity scoring *)

(* the analyzer of TfidfVectorizer(token_pattern=r"(?u)\b\w+\b",          *)
(* lowercase=True) on one word                                            *)
SimilarityAnalyzer(w) == FindAll(WordClass, 1, Lower(w))

(* the terms the vectorizer of compute_similarity_score finds in a text *)
SimilarityTerms(text) == TokensOf([w \in WordsOf(text) |-> SimilarityAnalyzer(w)], text)

(* compute_similarity_score without the try/except around the vectorizer *)
compute_similarity_score_NoExcept(resume_text, jd_text, sklearn) ==
  LET tfidf == TfidfCosine(SimilarityTerms(resume_text), SimilarityTerms(jd_text))
  IN  IF resume_text = <<>> \/ jd_text = <<>> THEN [raised |-> FALSE, value |-> 0]
      ELSE IF sklearn THEN tfidf
      ELSE [raised |-> FALSE, value |-> TokenCosine(tokenize(resume_text), tokenize(jd_text))]

(* streamlit_app.py: the third member tells whether the call raised *)
compute_similarity_score(resume_text, jd_text, sklearn) ==
  LET tfidf == TfidfCosine(SimilarityTerms(resume_text), SimilarityTerms(jd_text))
  IN  IF resume_text = <<>> \/ jd_text = <<>> THEN [raised |-> FALSE, value |-> 0]
      ELSE IF sklearn /\ ~tfidf.raised THEN tfidf
      ELSE [raised |-> FALSE, value |-> TokenCosine(tokenize(resume_text), tokenize(jd_text))]

(* stop_words='english' of TfidfVectorizer: the frozen list of            *)
(* scikit-learn (its common function words)                               *)
ENGLISH_STOP_WORDS ==
  {
    <<"a">>, <<"a","b","o","u","t">>, <<"a","b","o","v","e">>, <<"a","c","r","o","s","s">>,
    <<"a","f","t","e","r">>, <<"a","g","a","i","n">>, <<"a","g","a","i","n","s","t">>,
    <<"a","l","l">>, <<"a","l","m","o","s","t">>, <<"a","l","o","n","e">>, <<"a","l","o","n","g">>,
    <<"a","l","r","e","a","d","y">>, <<"a","l","s","o">>, <<"a","l","t","h","o","u","g","h">>,
    <<"a","l","w","a","y","s">>, <<"a","m">>, <<"a","m","o","n","g">>, <<"a","n">>,
    <<"a","n","d">>, <<"a","n","o","t","h","e","r">>, <<"a","n","y">>, <<"a","r","e">>,
    <<"a","r","o","u","n","d">>, <<"a","s">>, <<"a","t">>, <<"b","e">>,
    <<"b","e","c","a","u","s","e">>, <<"b","e","e","n">>, <<"b","e","f","o","r","e">>,
    <<"b","e","i","n","g">>, <<"b","e","l","o","w">>, <<"b","e","t","w","e","e","n">>,
    <<"b","o","t","h">>, <<"b","u","t">>, <<"b","y">>, <<"c","a","n">>,
    <<"c","a","n","n","o","t">>, <<"c","o","u","l","d">>, <<"d","o">>, <<"d","o","n","e">>,
    <<"d","o","w","n">>, <<"d","u","r","i","n","g">>, <<"e","a","c","h">>,
    <<"e","i","t","h","e","r">>, <<"e","l","s","e">>, <<"e","n","o","u","g","h">>,
    <<"e","v","e","n">>, <<"e","v","e","r">>, <<"e","v","e","r","y">>, <<"f","e","w">>,
    <<"f","i","r","s","t">>, <<"f","o","r">>, <<"f","r","o","m">>, <<"f","u","r","t","h","e","r">>,
    <<"g","e","t">>, <<"g","i","v","e">>, <<"g","o">>, <<"h","a","d">>, <<"h","a","s">>,
    <<"h","a","v","e">>, <<"h","e">>, <<"h","e","r">>, <<"h","e","r","e">>, <<"h","e","r","s">>,
    <<"h","e","r","s","e","l","f">>, <<"h","i","m">>, <<"h","i","m","s","e","l","f">>,
    <<"h","i","s">>, <<"h","o","w">>, <<"h","o","w","e","v","e","r">>, <<"i">>, <<"i","f">>,
    <<"i","n">>, <<"i","n","t","o">>, <<"i","s">>, <<"i","t">>, <<"i","t","s">>,
    <<"i","t","s","e","l","f">>, <<"l","a","s","t">>, <<"l","e","a","s","t">>, <<"l","e","s","s">>,
    <<"m","a","n","y">>, <<"m","a","y">>, <<"m","e">>, <<"m","o","r","e">>, <<"m","o","s","t">>,
    <<"m","u","c","h">>, <<"m","u","s","t">>, <<"m","y">>, <<"m","y","s","e","l","f">>,
    <<"n","e","v","e","r">>, <<"n","o">>, <<"n","o","b","o","d","y">>, <<"n","o","n","e">>,
    <<"n","o","r">>, <<"n","o","t">>, <<"n","o","t","h","i","n","g">>, <<"n","o","w">>,
    <<"o","f">>, <<"o","f","f">>, <<"o","f","t","e","n">>, <<"o","n">>, <<"o","n","c","e">>,
    <<"o","n","e">>, <<"o","n","l","y">>, <<"o","r">>, <<"o","t","h","e","r">>,
    <<"o","t","h","e","r","s">>, <<"o","u","r">>, <<"o","u","r","s">>,
    <<"o","u","r","s","e","l","v","e","s">>, <<"o","u","t">>, <<"o","v","e","r">>, <<"o","w","n">>,
    <<"p","e","r">>, <<"p","e","r","h","a","p","s">>, <<"r","a","t","h","e","r">>,
    <<"s","a","m","e">>, <<"s","e","v","e","r","a","l">>, <<"s","h","e">>,
    <<"s","h","o","u","l","d">>, <<"s","i","n","c","e">>, <<"s","o">>, <<"s","o","m","e">>,
    <<"s","u","c","h">>, <<"t","h","a","n">>, <<"t","h","a","t">>, <<"t","h","e">>,
    <<"t","h","e","i","r">>, <<"t","h","e","m">>, <<"t","h","e","m","s","e","l","v","e","s">>,
    <<"t","h","e","n">>, <<"t","h","e","r","e">>, <<"t","h","e","s","e">>, <<"t","h","e","y">>,
    <<"t","h","i","s">>, <<"t","h","o","s","e">>, <<"t","h","o","u","g","h">>,
    <<"t","h","r","o","u","g","h">>, <<"t","h","u","s">>, <<"t","o">>,
    <<"t","o","g","e","t","h","e","r">>, <<"t","o","o">>, <<"t","o","w","a","r","d">>,
    <<"u","n","d","e","r">>, <<"u","n","t","i","l">>, <<"u","p">>, <<"u","p","o","n">>,
    <<"u","s">>, <<"v","e","r","y">>, <<"w","a","s">>, <<"w","e">>, <<"w","e","l","l">>,
    <<"w","e","r","e">>, <<"w","h","a","t">>, <<"w","h","e","n">>, <<"w","h","e","r","e">>,
    <<"w","h","e","t","h","e","r">>, <<"w","h","i","c","h">>, <<"w","h","i","l","e">>,
    <<"w","h","o">>, <<"w","h","o","m">>, <<"w","h","o","s","e">>, <<"w","h","y">>,
    <<"w","i","l","l">>, <<"w","i","t","h">>, <<"w","i","t","h","i","n">>,
    <<"w","i","t","h","o","u","t">>, <<"w","o","u","l","d">>, <<"y","e","t">>, <<"y","o","u">>,
    <<"y","o","u","r">>, <<"y","o","u","r","s">>, <<"y","o","u","r","s","e","l","f">>,
    <<"y","o","u","r","s","e","l","v","e","s">>
  }

NotEnglishStopWord(t) == t \notin ENGLISH_STOP_WORDS

(* the analyzer of TfidfVectorizer(stop_words='english') on one word: the *)
(* default token pattern is (?u)\b\w\w+\b                                 *)
MatchAnalyzer(w) == SelectSeq(FindAll(WordClass, 2, Lower(w)), NotEnglishStopWord)

IsSpaceWord(w) == \A i \in DOMAIN w : w[i] \in SpaceChars

(* the terms the vectorizer of compute_match_score finds in a text *)
MatchTerms(text) == TokensOf([w \in WordsOf(text) |-> MatchAnalyzer(w)], text)

(* utils/nlp.py: lower-cases, turns every run of whitespace into one      *)
(* space and strips, which leaves the words that are not whitespace       *)
clean_text(text) ==
  LET IsWord(r) == ~IsSpaceWord(r.w)
      kept == SelectSeq(text, IsWord)
  IN  [i \in DOMAIN kept |-> [w |-> Lower(kept[i].w), n |-> kept[i].n]]

(* utils/nlp.py *)
compute_match_score(resume_text, jd_text) ==
  LET r == clean_text(resume_text)
      j == clean_text(jd_text)
      tfidf == TfidfCosine(MatchTerms(r), MatchTerms(j))
  IN  IF r = <<>> \/ j = <<>> THEN [raised |-> FALSE, value |-> 0]
      ELSE IF tfidf.raised THEN [raised |-> FALSE, value |-> 0]
      ELSE tfidf

----------------------------------------------------------------------------
(* The inputs: texts of at most MaxRuns runs, in pairs of at most          *)
(* MaxTotalRuns runs together, and every text paired with itself          *)

MaxRuns == 2

MaxTotalRuns == 3

MaxReps == 100

MaxTopN == 2

Words == { <<"j","a","v","a">>, <<"S","Q","L">>, <<"t","h","e">>, <<"\t">> }

(* the words written MaxReps times as well as once *)
Repeated == { <<"j","a","v","a">>, <<"S","Q","L">> }

Runs == [w : Words, n : {1}] \cup [w : Repeated, n : {MaxReps}]

RECURSIVE TextsOfLen(_)
TextsOfLen(k) ==
  IF k = 0 THEN {<<>>} ELSE {Append(t, r) : t \in TextsOfLen(k - 1), r \in Runs}

Texts == UNION {TextsOfLen(k) : k \in 0..MaxRuns}

----------------------------------------------------------------------------
(* The calls: a behaviour is one call of one function on one pair of texts *)

VARIABLES
  resume_text,        \* the resume text of the calls
  jd_text,            \* the job-description text of the calls
  SKLEARN_AVAILABLE,  \* whether scikit-learn could be imported
  called,             \* the function called last, "" before the first call
  top_n,              \* its top_n argument, 0 if it has none
  score,              \* the score it returned, in hundredths
  raised,             \* whether it raised
  matched,            \* the matched list it returned
  missing,            \* the missing list it returned
  freq,               \* the frequency table it returned
  terms,              \* the term list it returned
  word,               \* the argument of normalize_word
  stem,               \* the string normalize_word returned
  tokens,             \* the token list tokenize returned
  issues,             \* the list of warnings simple_ats_checks returned
  cat_compare,        \* the comparison given to generate_recruiter_tips
  sections,           \* the detected sections given to it
  contact_info,       \* the detected contact details given to it
  score_pct,          \* the score given to it, in hundredths
  tips,               \* the list of tips it returned
  engine,             \* whether get_engine() returns an engine
  users,              \* the rows of the table users, in the order of their ids
  pc,                 \* where each caller of utils/auth.py is
  args,               \* the arguments of the call each caller is in
  result,             \* what the last call of each caller returned
  uploaded_file,      \* the file given to the extraction: <<>> for None, or <<file>>
  libs,               \* which of the optional libraries could be imported
  extracted,          \* the text the extraction returned
  weighted_score,     \* what compute_weighted_score returned, in hundredths
  sim_score,          \* the similarity score of a scan, in hundredths
  final_score,        \* the final score of a scan, in hundredths
  current_result,     \* session current_result: <<>> for None, or <<result>>
  scan_history,       \* session scan_history
  paste_resume,       \* session paste_resume: the text of the resume text area
  paste_jd,           \* session paste_jd: the text of the job-description text area
  opt_linkedin,       \* the checkbox "Also show LinkedIn suggestions"
  now                 \* the clock: the number of buttons pressed in the session so far

vars == <<resume_text, jd_text, SKLEARN_AVAILABLE, called, top_n, score, raised,
          matched, missing, freq, terms, word, stem, tokens, issues,
          cat_compare, sections, contact_info, score_pct, tips,
          engine, users, pc, args, result,
          uploaded_file, libs, extracted, weighted_score, sim_score, final_score,
          current_result, scan_history, paste_resume, paste_jd, opt_linkedin, now>>

inputs == <<resume_text, jd_text, SKLEARN_AVAILABLE>>

(* what the calls of the scorers and of the keyword functions return *)
scorer_results == <<top_n, score, raised, matched, missing, freq, terms>>

NoScorerResult ==
  /\ top_n = 0
  /\ score = 0
  /\ raised = FALSE
  /\ matched = <<>>
  /\ missing = <<>>
  /\ freq = <<>>
  /\ terms = <<>>

(* the variables of the calls of the tokenizer *)
tokenizer_vars == <<word, stem, tokens>>

NoTokenizerCall ==
  /\ word = <<>>
  /\ stem = <<>>
  /\ tokens = <<>>

(* the variables of the calls of the formatting checks *)
checks_vars == <<issues>>

NoChecksCall == issues = <<>>

(* the variables of the calls of generate_recruiter_tips *)
tips_vars == <<cat_compare, sections, contact_info, score_pct, tips>>

NoTipsCall ==
  /\ cat_compare = [hard |-> [missing |-> <<>>], missing_simple |-> <<>>]
  /\ sections = [summary |-> FALSE, experience |-> FALSE]
  /\ contact_info = [address |-> FALSE, email |-> FALSE, phone |-> FALSE]
  /\ score_pct = 0
  /\ tips = <<>>

(* the variables of the calls of utils/auth.py *)
auth_vars == <<engine, users, pc, args, result>>

(* the callers of utils/auth.py: the sessions of the application *)
Procs == {"s1", "s2"}

(* the hash of no password *)
NoHash == [salt |-> "", digest |-> <<>>]

NoArgs == [name |-> "", email |-> "", password |-> "", hashed |-> NoHash]

NoUser == [id |-> 0, name |-> "", email |-> ""]

(* what a call gave: the pair (ok, message) or (ok, user) it returned, or *)
(* the exception it raised                                                *)
NoResult ==
  [call |-> "", returned |-> FALSE, raised |-> "", ok |-> FALSE, message |-> "",
   user |-> NoUser]

NoAuthCall ==
  /\ engine = FALSE
  /\ users = <<>>
  /\ pc = [p \in Procs |-> "idle"]
  /\ args = [p \in Procs |-> NoArgs]
  /\ result = [p \in Procs |-> NoResult]

(* the variables of the calls of the text extraction *)
extract_vars == <<uploaded_file, libs, extracted>>

NoLibs == [PyPDF2 |-> FALSE, docx |-> FALSE]

NoExtractCall ==
  /\ uploaded_file = <<>>
  /\ libs = NoLibs
  /\ extracted = <<>>

(* the variables of the calls of compute_weighted_score and of the final score *)
weighted_vars == <<weighted_score, sim_score, final_score>>

NoWeightedCall ==
  /\ weighted_score = 0
  /\ sim_score = 0
  /\ final_score = 0

(* the variables of a session of the application *)
session_vars == <<current_result, scan_history, paste_resume, paste_jd, opt_linkedin, now>>

NoSession ==
  /\ current_result = <<>>
  /\ scan_history = <<>>
  /\ paste_resume = <<>>
  /\ paste_jd = <<>>
  /\ opt_linkedin = FALSE
  /\ now = 0

(* the variables of the application (streamlit_app.py) and of the extraction *)
app_vars == <<extract_vars, weighted_vars, session_vars>>

NoAppCall ==
  /\ NoExtractCall
  /\ NoWeightedCall
  /\ NoSession

Init ==
  /\ resume_text \in Texts
  /\ jd_text \in Texts
  /\ (Len(resume_text) + Len(jd_text) <= MaxTotalRuns \/ resume_text = jd_text)
  /\ SKLEARN_AVAILABLE \in BOOLEAN
  /\ called = ""
  /\ top_n = 0
  /\ score = 0
  /\ raised = FALSE
  /\ matched = <<>>
  /\ missing = <<>>
  /\ freq = <<>>
  /\ terms = <<>>
  /\ NoTokenizerCall
  /\ NoChecksCall
  /\ NoTipsCall
  /\ NoAuthCall
  /\ NoAppCall

ComputeSimilarityScore ==
  LET r == compute_similarity_score(resume_text, jd_text, SKLEARN_AVAILABLE)
  IN  /\ called = ""
      /\ called' = "compute_similarity_score"
      /\ score' = r.value
      /\ raised' = r.raised
      /\ top_n' = 0
      /\ matched' = <<>>
      /\ missing' = <<>>
      /\ freq' = <<>>
      /\ terms' = <<>>
      /\ UNCHANGED <<inputs, tokenizer_vars, checks_vars, tips_vars, auth_vars, app_vars>>

(* utils/nlp.py imports scikit-learn unconditionally *)
ComputeMatchScore ==
  /\ called = ""
  /\ SKLEARN_AVAILABLE
  /\ LET r == compute_match_score(resume_text, jd_text)
     IN  /\ called' = "compute_match_score"
         /\ score' = r.value
         /\ raised' = r.raised
  /\ top_n' = 0
  /\ matched' = <<>>
  /\ missing' = <<>>
  /\ freq' = <<>>
  /\ terms' = <<>>
  /\ UNCHANGED <<inputs, tokenizer_vars, checks_vars, tips_vars, auth_vars, app_vars>>

ExtractTopTerms ==
  \E k \in 1..MaxTopN :
    LET r == extract_top_terms(jd_text, k)
    IN  /\ called = ""
        /\ called' = "extract_top_terms"
        /\ top_n' = k
        /\ terms' = r.terms
        /\ freq' = r.freq
        /\ score' = 0
        /\ raised' = FALSE
        /\ matched' = <<>>
        /\ missing' = <<>>
        /\ UNCHANGED <<inputs, tokenizer_vars, checks_vars, tips_vars, auth_vars, app_vars>>

CategorizeAndCompare ==
  LET r == categorize_and_compare(resume_text, jd_text)
  IN  /\ called = ""
      /\ called' = "categorize_and_compare"
      /\ top_n' = 0
      /\ matched' = r.matched_simple
      /\ missing' = r.missing_simple
      /\ freq' = r.jd_freq
      /\ terms' = <<>>
      /\ score' = 0
      /\ raised' = FALSE
      /\ UNCHANGED <<inputs, tokenizer_vars, checks_vars, tips_vars, auth_vars, app_vars>>

GetKeywords ==
  /\ called = ""
  /\ SKLEARN_AVAILABLE
  /\ \E k \in 1..MaxTopN :
       LET r == get_keywords(resume_text, jd_text, k)
       IN  /\ called' = "get_keywords"
           /\ top_n' = k
           /\ matched' = r.matched
           /\ missing' = r.missing
  /\ freq' = <<>>
  /\ terms' = <<>>
  /\ score' = 0
  /\ raised' = FALSE
  /\ UNCHANGED <<inputs, tokenizer_vars, checks_vars, tips_vars, auth_vars, app_vars>>

Next ==
  \/ ComputeSimilarityScore
  \/ ComputeMatchScore
  \/ ExtractTopTerms
  \/ CategorizeAndCompare
  \/ GetKeywords

Spec == Init /\ [][Next]_vars

----------------------------------------------------------------------------
(* The calls of the tokenizer: a behaviour is one call of tokenize on a   *)
(* text or of normalize_word on one of the candidates TOKEN_RE finds in it *)

MaxCopies == 2

TokenizerWords ==
  { <<"s","i","n","g","s">>, <<"c","l","a","s","s","e","s">>, <<"b","e","d">>,
    <<"7">>, <<"4","2">>, <<"t","h","e">>, <<"-","T","e","s","t","-">>,
    <<"j","a","v","a",",","S","Q","L">> }

(* the texts of up to MaxRuns runs of one or of MaxCopies copies of a word *)
TokenizerTexts ==
  UNION {[1..k -> [w : TokenizerWords, n : {1, MaxCopies}]] : k \in 0..MaxRuns}

(* the candidates TOKEN_RE.findall finds in a text *)
Candidates(text) == UNION {Range(FindAll(TOKEN_RE, 1, w)) : w \in WordsOf(text)}

InitTokenizer ==
  /\ resume_text \in TokenizerTexts
  /\ jd_text = <<>>
  /\ SKLEARN_AVAILABLE = FALSE
  /\ called = ""
  /\ NoScorerResult
  /\ word \in Candidates(resume_text) \cup {<<>>}
  /\ stem = <<>>
  /\ tokens = <<>>
  /\ NoChecksCall
  /\ NoTipsCall
  /\ NoAuthCall
  /\ NoAppCall

Tokenize ==
  /\ called = ""
  /\ called' = "tokenize"
  /\ tokens' = tokenize(resume_text)
  /\ UNCHANGED <<inputs, scorer_results, word, stem, checks_vars, tips_vars, auth_vars, app_vars>>

NormalizeWord ==
  /\ called = ""
  /\ called' = "normalize_word"
  /\ stem' = normalize_word(word)
  /\ UNCHANGED <<inputs, scorer_results, word, tokens, checks_vars, tips_vars, auth_vars, app_vars>>

NextTokenizer ==
  \/ Tokenize
  \/ NormalizeWord

SpecTokenizer == InitTokenizer /\ [][NextTokenizer]_vars

----------------------------------------------------------------------------
(* Formatting checks (streamlit_app.py and utils/nlp.py).  They read the  *)
(* text as a string: the tuple of its characters.  A character outside    *)
(* ASCII is written by its code point ("U+25A0"), a dash outside ASCII in *)
(* a message as "--".                                                     *)

(* the characters a run takes, a space after every copy of the word *)
RunLen(r) == r.n * (Len(r.w) + 1)

RECURSIVE TextLen(_)
TextLen(text) == IF text = <<>> THEN 0 ELSE RunLen(Head(text)) + TextLen(Tail(text))

RECURSIVE CharAt(_, _)
CharAt(text, p) ==
  LET r == Head(text)
      at == (p - 1) % (Len(r.w) + 1)
  IN  IF p > RunLen(r) THEN CharAt(Tail(text), p - RunLen(r))
      ELSE IF at = Len(r.w) THEN " " ELSE r.w[at + 1]

(* the string of a text: its words joined by single spaces *)
Chars(text) ==
  IF text = <<>> THEN <<>> ELSE [p \in 1..(TextLen(text) - 1) |-> CharAt(text, p)]

(* pat in s *)
Contains(s, pat) ==
  \E i \in 1..(Len(s) - Len(pat) + 1) : \A j \in DOMAIN pat : s[i + j - 1] = pat[j]

(* len(s.split()): the words start after whitespace or at the start *)
SplitCount(s) ==
  Cardinality({i \in DOMAIN s : s[i] \notin SpaceChars /\ (i = 1 \/ s[i - 1] \in SpaceChars)})

(* len(s.splitlines()): a line ends at a line break, "\r\n" being one,   *)
(* and at the end of the string if no line break is there                 *)
LineCount(s) ==
  LET breaks == {"\n", "\r", "\f"}
      ends == {i \in DOMAIN s :
                 s[i] \in breaks /\ ~(s[i] = "\r" /\ i < Len(s) /\ s[i + 1] = "\n")}
  IN  Cardinality(ends) + (IF s # <<>> /\ s[Len(s)] \notin breaks THEN 1 ELSE 0)

(* [■♦▸►✦] *)
BulletChars == {"U+25A0", "U+2666", "U+25B8", "U+25BA", "U+2726"}

MinWords == 200

(* the warnings of simple_ats_checks of streamlit_app.py *)
Issues ==
  [columns |-> "Possible columns or table-like formatting -- convert to a simple vertical layout.",
   images |-> "Images detected -- remove images for ATS-friendly resume.",
   bullets |-> "Unusual bullet characters detected -- use simple hyphens or standard bullets.",
   short |-> "Resume looks short -- aim for ~400--1000 words depending on experience."]

(* issues.append(message) if the condition holds *)
AppendIf(list, cond, message) == IF cond THEN Append(list, message) ELSE list

(* simple_ats_checks with the checks chained by elif: the first warning   *)
(* only                                                                   *)
simple_ats_checks_FirstOnly(text) ==
  LET s == Chars(text)
      lower == Lower(s)
  IN  IF s = <<>> THEN <<>>
      ELSE IF Contains(s, <<"\t">>) \/ Contains(s, <<" ", " ", " ", " ">>) THEN <<Issues.columns>>
      ELSE IF Contains(lower, <<"<", "i", "m", "g">>)
                \/ Contains(lower, <<"i", "m", "a", "g", "e", ":">>) THEN <<Issues.images>>
      ELSE IF \E i \in DOMAIN s : s[i] \in BulletChars THEN <<Issues.bullets>>
      ELSE IF SplitCount(s) < MinWords THEN <<Issues.short>>
      ELSE <<>>

(* streamlit_app.py *)
simple_ats_checks(text) ==
  LET s == Chars(text)
      lower == Lower(s)
      columns == AppendIf(<<>>, Contains(s, <<"\t">>) \/ Contains(s, <<" ", " ", " ", " ">>),
                          Issues.columns)
      images == AppendIf(columns, Contains(lower, <<"<", "i", "m", "g">>)
                                    \/ Contains(lower, <<"i", "m", "a", "g", "e", ":">>),
                         Issues.images)
      bullets == AppendIf(images, \E i \in DOMAIN s : s[i] \in BulletChars, Issues.bullets)
  IN  IF s = <<>> THEN <<>>
      ELSE AppendIf(bullets, SplitCount(s) < MinWords, Issues.short)

MinLines == 5

(* the warnings of simple_ats_checks of utils/nlp.py *)
NlpIssues ==
  [columns |-> "Possible columns or table-like formatting (avoid for ATS).",
   images |-> "Images detected or image tags present (remove images for ATS).",
   short |-> "Short resume text detected (check content)."]

(* utils/nlp.py *)
nlp_simple_ats_checks(text) ==
  LET s == Chars(text)
      columns == AppendIf(<<>>, Contains(s, <<"\t">>) \/ Contains(s, <<" ", " ">>),
                          NlpIssues.columns)
      images == AppendIf(columns, Contains(s, <<"<", "i", "m", "g">>)
                                    \/ Contains(Lower(s), <<"i", "m", "a", "g", "e", ":">>),
                         NlpIssues.images)
  IN  IF s = <<>> THEN <<>>
      ELSE AppendIf(images, LineCount(s) < MinLines, NlpIssues.short)

(* The calls of the formatting checks: a behaviour is one call of one of  *)
(* the two functions on a text                                            *)

ChecksWords ==
  { <<"j","a","v","a">>, <<"\t">>, <<" "," ">>, <<"\n">>,
    <<"<","I","M","G">>, <<"i","m","a","g","e",":">>, <<"U+25A0">> }

(* every word once, and the runs that reach the limits of the checks of   *)
(* the length with one more word or line                                  *)
(* the texts of up to MaxRuns runs: one of the words, or a run that one   *)
(* more word or line brings to the least number of words or of lines      *)
ChecksTexts ==
  LET runs == [w : ChecksWords, n : {1}]
                \cup {[w |-> <<"j","a","v","a">>, n |-> MinWords - 1],
                      [w |-> <<"\n">>, n |-> MinLines - 1]}
  IN  UNION {[1..k -> runs] : k \in 0..MaxRuns}

InitChecks ==
  /\ resume_text \in ChecksTexts
  /\ jd_text = <<>>
  /\ SKLEARN_AVAILABLE = FALSE
  /\ called = ""
  /\ NoScorerResult
  /\ NoTokenizerCall
  /\ issues = <<>>
  /\ NoTipsCall
  /\ NoAuthCall
  /\ NoAppCall

SimpleAtsChecks ==
  /\ called = ""
  /\ called' = "simple_ats_checks"
  /\ issues' = simple_ats_checks(resume_text)
  /\ UNCHANGED <<inputs, scorer_results, tokenizer_vars, tips_vars, auth_vars, app_vars>>

NlpSimpleAtsChecks ==
  /\ called = ""
  /\ called' = "nlp.simple_ats_checks"
  /\ issues' = nlp_simple_ats_checks(resume_text)
  /\ UNCHANGED <<inputs, scorer_results, tokenizer_vars, tips_vars, auth_vars, app_vars>>

NextChecks ==
  \/ SimpleAtsChecks
  \/ NlpSimpleAtsChecks

SpecChecks == InitChecks /\ [][NextChecks]_vars

----------------------------------------------------------------------------
(* Suggestions (streamlit_app.py).  A tip is a string; the two tips that  *)
(* join a list are written as their fixed start and the list joined: the  *)
(* warnings hold no " | " and the tokens no ", ", so that two tips are    *)
(* the same string exactly when they are the same record.                 *)

Tip(text) == [text |-> text, issues |-> <<>>, words |-> <<>>]

(* the fixed tips of generate_recruiter_tips, the last four its headlines *)
Tips ==
  [address |->
     Tip("Add your location/address -- recruiters use it to validate location matches."),
   email |->
     Tip("Add a professional email address for recruiter contact."),
   phone |->
     Tip("Add a phone number to improve contactability."),
   summary |->
     Tip("Add a 2--3 line Summary at the top describing your role and impact."),
   experience |->
     Tip("Add at least one Work Experience entry (internship or project counts)."),
   job_title |->
     Tip("Include the exact job title (e.g. 'Java Developer') in your Summary or Experience for better matches."),
   education |->
     Tip("The JD prefers a Bachelor's degree -- if you have relevant experience, highlight it in Summary."),
   quantify |->
     Tip("Add measurable results (numbers, %, time saved, users served) to at least a few bullets."),
   excellent |->
     Tip("Excellent match -- minor polish recommended."),
   good |->
     Tip("Good match -- consider addressing the top missing skills."),
   partial |->
     Tip("Partial match -- prioritize high-impact JD keywords and measurable outcomes."),
   low |->
     Tip("Low match -- rework resume to include role-specific skills and structure.")]

(* "Formatting suggestions: " + " | ".join(ats) *)
FormattingTip(ats) == [text |-> "Formatting suggestions: ", issues |-> ats, words |-> <<>>]

(* "Top missing skills to add: " + ", ".join(top_missing) *)
TopMissingTip(top_missing) ==
  [text |-> "Top missing skills to add: ", issues |-> <<>>, words |-> top_missing]

(* re.search of \b(p1|p2|...)\b in s, every p starting and ending with a  *)
(* word character                                                         *)
SearchWords(s, pats) ==
  \E pat \in pats : \E i \in 1..(Len(s) - Len(pat) + 1) :
    /\ \A j \in DOMAIN pat : s[i + j - 1] = pat[j]
    /\ Boundary(s, i)
    /\ Boundary(s, i + Len(pat))

(* java developer|software engineer|developer|backend engineer *)
JobTitles ==
  {<<"j", "a", "v", "a", " ", "d", "e", "v", "e", "l", "o", "p", "e", "r">>,
   <<"s", "o", "f", "t", "w", "a", "r", "e", " ", "e", "n", "g", "i", "n", "e", "e", "r">>,
   <<"d", "e", "v", "e", "l", "o", "p", "e", "r">>,
   <<"b", "a", "c", "k", "e", "n", "d", " ", "e", "n", "g", "i", "n", "e", "e", "r">>}

(* bachelor|bs|ba|bsc *)
JdDegrees == {<<"b", "a", "c", "h", "e", "l", "o", "r">>, <<"b", "s">>, <<"b", "a">>, <<"b", "s", "c">>}

(* bachelor|bsc|ba|bs|engineering *)
ResumeDegrees == JdDegrees \cup {<<"e", "n", "g", "i", "n", "e", "e", "r", "i", "n", "g">>}

(* where the match of \b\d{1,3}%|\b\d{2,5}\b that starts at i ends, 0 if  *)
(* none starts there: the digits are a whole run of digits after a \b,    *)
(* one to three of them before a "%", or two to five of them before a \b  *)
NumEnd(s, i) ==
  LET e == RunEnd(DigitChars, s, i)
  IN  IF s[i] \notin DigitChars \/ ~Boundary(s, i) THEN 0
      ELSE IF e - i <= 3 /\ e \in DOMAIN s /\ s[e] = "%" THEN e + 1
      ELSE IF e - i \in 2..5 /\ Boundary(s, e) THEN e
      ELSE 0

(* re.findall(r"\b\d{1,3}%|\b\d{2,5}\b", s): no two matches overlap, so   *)
(* the matches are those of all the starts, from left to right            *)
FindNums(s) ==
  LET starts == {i \in DOMAIN s : NumEnd(s, i) > 0}
      nth(k) == CHOOSE i \in starts : Cardinality({j \in starts : j <= i}) = k
  IN  [k \in 1..Cardinality(starts) |-> SubSeq(s, nth(k), NumEnd(s, nth(k)) - 1)]

(* the reminder whatever the text holds *)
quantify_tips_Always(text) == <<Tips.quantify>>

(* lines 360-362: the tips on quantifiable achievements *)
quantify_tips(text) == IF FindNums(Chars(text)) = <<>> THEN <<Tips.quantify>> ELSE <<>>

(* the tiers taken with > instead of >= *)
headline_Above(pct) ==
  IF pct > 8000 THEN Tips.excellent
  ELSE IF pct > 6000 THEN Tips.good
  ELSE IF pct > 4000 THEN Tips.partial
  ELSE Tips.low

(* lines 372-379: the tip put first, pct in hundredths *)
headline(pct) ==
  IF pct >= 8000 THEN Tips.excellent
  ELSE IF pct >= 6000 THEN Tips.good
  ELSE IF pct >= 4000 THEN Tips.partial
  ELSE Tips.low

generate_recruiter_tips(r_text, j_text, cat, sect, contact, pct) ==
  LET r == Lower(Chars(r_text))
      j == Lower(Chars(j_text))
      t1 == AppendIf(<<>>, ~contact.address, Tips.address)
      t2 == AppendIf(t1, ~contact.email, Tips.email)
      t3 == AppendIf(t2, ~contact.phone, Tips.phone)
      t4 == AppendIf(t3, ~sect.summary, Tips.summary)
      t5 == AppendIf(t4, ~sect.experience, Tips.experience)
      t6 == AppendIf(t5, SearchWords(j, JobTitles) /\ ~SearchWords(r, {<<"j", "a", "v", "a", " ", "d", "e", "v", "e", "l", "o", "p", "e", "r">>}),
                     Tips.job_title)
      t7 == AppendIf(t6, SearchWords(j, JdDegrees) /\ ~SearchWords(r, ResumeDegrees),
                     Tips.education)
      t8 == t7 \o quantify_tips(r_text)
      ats == simple_ats_checks(r_text)
      t9 == AppendIf(t8, ats # <<>>, FormattingTip(ats))
      top_missing == IF cat.hard.missing # <<>> THEN Take(cat.hard.missing, 5)
                     ELSE Take(cat.missing_simple, 5)
      t10 == AppendIf(t9, top_missing # <<>>, TopMissingTip(top_missing))
  IN  <<headline(pct)>> \o t10

(* The calls of generate_recruiter_tips.  Of contact_info and sections    *)
(* the keys the function reads are kept, of cat_compare the keys of       *)
(* cat_compare["hard"]["missing"] in their order and missing_simple.      *)
Run1(w) == [w |-> w, n |-> 1]

TipsResumes ==
  {<<>>,
   <<Run1(<<"J", "a", "v", "a">>), Run1(<<"D", "e", "v", "e", "l", "o", "p", "e", "r">>)>>,
   <<Run1(<<"e", "n", "g", "i", "n", "e", "e", "r", "i", "n", "g">>), Run1(<<"2", "5", "%">>)>>,
   <<Run1(<<"b", "a", "c", "h", "e", "l", "o", "r">>), Run1(<<"2", "0", "2", "0">>)>>,
   <<Run1(<<"d", "e", "v", "e", "l", "o", "p", "e", "r">>), Run1(<<"7">>)>>,
   <<Run1(<<"a", "1", "2">>), Run1(<<"1", "2", "3", "4", "5", "6">>)>>,
   <<[w |-> <<"c">>, n |-> MinWords], Run1(<<"4", "2">>)>>}

TipsJds ==
  {<<>>,
   <<Run1(<<"J", "a", "v", "a">>), Run1(<<"D", "e", "v", "e", "l", "o", "p", "e", "r">>)>>,
   <<Run1(<<"B", "S">>), Run1(<<"d", "e", "v", "e", "l", "o", "p", "e", "r", "s">>)>>}

CatCompares ==
  LET Skills == <<<<"S", "Q", "L">>, <<"j", "a", "v", "a">>, <<"a", "w", "s">>,
                  <<"d", "o", "c", "k", "e", "r">>, <<"g", "i", "t">>,
                  <<"l", "i", "n", "u", "x">>>>
  IN
  {[hard |-> [missing |-> h], missing_simple |-> m] :
     <<h, m>> \in {<<<<>>, <<>>>>, <<Skills, <<<<"j", "a", "v", "a">>>>>>, <<<<>>, Skills>>}}

Scores == {0, 3999, 4000, 5999, 6000, 7999, 8000, 10000}

InitTips ==
  /\ resume_text \in TipsResumes
  /\ jd_text \in TipsJds
  /\ SKLEARN_AVAILABLE = FALSE
  /\ called = ""
  /\ NoScorerResult
  /\ NoTokenizerCall
  /\ NoChecksCall
  /\ cat_compare \in CatCompares
  /\ sections \in [summary : BOOLEAN, experience : BOOLEAN]
  /\ contact_info \in [address : BOOLEAN, email : BOOLEAN, phone : BOOLEAN]
  /\ score_pct \in Scores
  /\ tips = <<>>
  /\ NoAuthCall
  /\ NoAppCall

GenerateRecruiterTips ==
  /\ called = ""
  /\ called' = "generate_recruiter_tips"
  /\ tips' = generate_recruiter_tips(resume_text, jd_text, cat_compare, sections,
                                     contact_info, score_pct)
  /\ UNCHANGED <<inputs, scorer_results, tokenizer_vars, checks_vars,
                 cat_compare, sections, contact_info, score_pct, auth_vars, app_vars>>

NextTips == GenerateRecruiterTips

SpecTips == InitTips /\ [][NextTips]_vars

----------------------------------------------------------------------------
(* Registration and login (utils/auth.py) on the shared table users.      *)
(* get_engine() gives the engine of the Postgres database or None, then   *)
(* the calls use the SQLite file; in both the table has the columns id,   *)
(* name, email UNIQUE, password.  The id of a row is its place in the     *)
(* table.  Of the errors of the database the violation of UNIQUE is       *)
(* modelled.                                                              *)

Names == {"", "Ann"}

Emails == {"", "ann@x.io", "bob@x.io"}

Passwords == {"", "pw1", "pw2"}

(* the salts bcrypt.hash draws: nothing but bcrypt.verify reads the salt, *)
(* one value stands for all                                               *)
Salts == {"salt1"}

(* bcrypt.hash(password) with the salt drawn; the passwords are shorter   *)
(* than the 72 bytes bcrypt reads                                         *)
Hash(password, salt) == [salt |-> salt, digest |-> <<salt, password>>]

(* every password verifies *)
verify_Always(password, hashed) == TRUE

(* bcrypt.verify(password, hashed) *)
verify(password, hashed) == Hash(password, hashed.salt) = hashed

(* SELECT ... FROM users WHERE email = :email, fetchone(): the rows found *)
SelectByEmail(email) == {i \in DOMAIN users : users[i].email = email}

Returned(call, ok, message) ==
  [call |-> call, returned |-> TRUE, raised |-> "", ok |-> ok, message |-> message,
   user |-> NoUser]

ReturnedUser(call, user) ==
  [call |-> call, returned |-> TRUE, raised |-> "", ok |-> TRUE, message |-> "",
   user |-> user]

Raised(call, exception) ==
  [call |-> call, returned |-> FALSE, raised |-> exception, ok |-> FALSE, message |-> "",
   user |-> NoUser]

Running(call) == [NoResult EXCEPT !.call = call]

InitAuth ==
  /\ resume_text = <<>>
  /\ jd_text = <<>>
  /\ SKLEARN_AVAILABLE = FALSE
  /\ called = ""
  /\ NoScorerResult
  /\ NoTokenizerCall
  /\ NoChecksCall
  /\ NoTipsCall
  /\ engine \in BOOLEAN
  /\ users = <<>>
  /\ pc = [p \in Procs |-> "idle"]
  /\ args = [p \in Procs |-> NoArgs]
  /\ result = [p \in Procs |-> NoResult]
  /\ NoAppCall

not_auth_vars ==
  <<inputs, called, scorer_results, tokenizer_vars, checks_vars, tips_vars, app_vars>>

(* register_user up to its SELECT: the check of the arguments, the hash,  *)
(* the check that the email is not in the table                           *)
RegisterSelect(p) ==
  /\ pc[p] = "idle"
  /\ \E name \in Names, email \in Emails, password \in Passwords, salt \in Salts :
       IF name = "" \/ email = "" \/ password = ""
         THEN /\ args' = [args EXCEPT ![p] = [name |-> name, email |-> email,
                                              password |-> password, hashed |-> NoHash]]
              /\ result' = [result EXCEPT ![p] =
                   Returned("register_user", FALSE, "Name, email and password are required.")]
              /\ pc' = pc
         ELSE /\ args' = [args EXCEPT ![p] = [name |-> name, email |-> email,
                                              password |-> password,
                                              hashed |-> Hash(password, salt)]]
              /\ IF SelectByEmail(email) # {}
                   THEN /\ result' = [result EXCEPT ![p] =
                             Returned("register_user", FALSE, "Email already registered.")]
                        /\ pc' = pc
                   ELSE /\ result' = [result EXCEPT ![p] = Running("register_user")]
                        /\ pc' = [pc EXCEPT ![p] = "insert"]
  /\ UNCHANGED <<not_auth_vars, engine, users>>

(* the INSERT without the UNIQUE constraint on email *)
RegisterInsert_NoUnique(p) ==
  /\ pc[p] = "insert"
  /\ users' = Append(users, [id |-> Len(users) + 1, name |-> args[p].name,
                             email |-> args[p].email, password |-> args[p].hashed])
  /\ result' = [result EXCEPT ![p] =
                  Returned("register_user", TRUE, "Registration successful.")]
  /\ pc' = [pc EXCEPT ![p] = "idle"]
  /\ UNCHANGED <<not_auth_vars, engine, args>>

(* register_user from its INSERT on: the row is added and committed, or   *)
(* the INSERT fails on the UNIQUE constraint; the branch of the engine    *)
(* catches the exception, the branch of SQLite does not                   *)
RegisterInsert(p) ==
  /\ pc[p] = "insert"
  /\ IF SelectByEmail(args[p].email) # {}
       THEN /\ users' = users
            /\ result' = [result EXCEPT ![p] =
                 IF engine
                   THEN Returned("register_user", FALSE, "Registration failed: IntegrityError")
                   ELSE Raised("register_user", "sqlite3.IntegrityError")]
       ELSE /\ users' = Append(users, [id |-> Len(users) + 1, name |-> args[p].name,
                                       email |-> args[p].email,
                                       password |-> args[p].hashed])
            /\ result' = [result EXCEPT ![p] =
                 Returned("register_user", TRUE, "Registration successful.")]
  /\ pc' = [pc EXCEPT ![p] = "idle"]
  /\ UNCHANGED <<not_auth_vars, engine, args>>

(* login_user: its one SELECT reads the table *)
LoginUser(p) ==
  /\ pc[p] = "idle"
  /\ \E email \in Emails, password \in Passwords :
       /\ args' = [args EXCEPT ![p] = [name |-> "", email |-> email,
                                       password |-> password, hashed |-> NoHash]]
       /\ result' = [result EXCEPT ![p] =
            IF email = "" \/ password = ""
              THEN Returned("login_user", FALSE, "Email and password required.")
            ELSE IF SelectByEmail(email) = {}
              THEN Returned("login_user", FALSE, "No such user.")
            ELSE LET r == users[CHOOSE i \in SelectByEmail(email) :
                                  \A k \in SelectByEmail(email) : i <= k]
                 IN  IF verify(password, r.password)
                       THEN ReturnedUser("login_user",
                                         [id |-> r.id, name |-> r.name, email |-> email])
                       ELSE Returned("login_user", FALSE, "Invalid credentials.")]
  /\ UNCHANGED <<not_auth_vars, engine, users, pc>>

NextAuth ==
  \E p \in Procs :
    \/ RegisterSelect(p)
    \/ RegisterInsert(p)
    \/ LoginUser(p)

SpecAuth == InitAuth /\ [][NextAuth]_vars

----------------------------------------------------------------------------
(* The text extraction (utils/extractor.py and streamlit_app.py).  A byte  *)
(* string is the tuple of its bytes: an ASCII byte is written as its       *)
(* character, "0xFF" is a byte that no UTF-8 text holds.  A string is the  *)
(* tuple of its characters.  An uploaded file is its name, its bytes and   *)
(* what the libraries make of the bytes: reader is the outcome of          *)
(* PyPDF2.PdfReader (opens: the reader and its list of pages are obtained  *)
(* without an exception; for each page whether extract_text raises and     *)
(* the text it returns, <<>> for "" and for None), document the outcome of *)
(* docx.Document (opens, and the texts of the paragraphs).                 *)

MaxPages == 3

(* the calls of the scorers, the tokenizer, the checks and utils/auth.py   *)
(* are idle                                                               *)
NotAppIdle ==
  /\ resume_text = <<>>
  /\ jd_text = <<>>
  /\ SKLEARN_AVAILABLE = FALSE
  /\ NoScorerResult
  /\ NoTokenizerCall
  /\ NoChecksCall
  /\ NoAuthCall

not_app_vars ==
  <<inputs, scorer_results, tokenizer_vars, checks_vars, tips_vars, auth_vars>>

(* bytes.decode("utf-8", errors="ignore") drops the bytes that are not     *)
(* valid and never raises: the decoding as latin-1 in the except clauses   *)
(* is never reached                                                        *)
extract_text_from_txt_bytes(b) ==
  LET Valid(c) == c # "0xFF"
  IN  SelectSeq(b, Valid)

(* "\n".join(chunks) *)
RECURSIVE JoinLines(_)
JoinLines(chunks) ==
  IF chunks = <<>> THEN <<>>
  ELSE IF Len(chunks) = 1 THEN chunks[1]
  ELSE chunks[1] \o <<"\n">> \o JoinLines(Tail(chunks))

(* the loop over reader.pages keeping every page *)
PageTexts_All(pages) == [i \in DOMAIN pages |-> pages[i].text]

(* the loop over reader.pages: page.extract_text() or "" of the pages      *)
(* whose extract_text does not raise                                       *)
PageTexts(pages) ==
  LET Extracts(p) == ~p.raises
      kept == SelectSeq(pages, Extracts)
  IN  [i \in DOMAIN kept |-> kept[i].text]

(* the texts of the paragraphs that have one *)
ParagraphTexts(paragraphs) ==
  LET HasText(t) == t # <<>>
  IN  SelectSeq(paragraphs, HasText)

extract_text_from_docx_bytes(f, lib) ==
  IF ~lib.docx THEN extract_text_from_txt_bytes(f.raw)
  ELSE IF ~f.document.opens THEN extract_text_from_txt_bytes(f.raw)
  ELSE JoinLines(ParagraphTexts(f.document.paragraphs))

extract_text_from_pdf_bytes(f) ==
  IF ~f.reader.opens THEN <<>>
  ELSE JoinLines(PageTexts(f.reader.pages))

Ext(e) == <<".">> \o e

extract_file_text(uploaded, lib) ==
  IF uploaded = <<>> THEN <<>>
  ELSE LET f == uploaded[1]
           name == Lower(f.name)
       IN  IF EndsWith(name, Ext(<<"t", "x", "t">>))
             THEN extract_text_from_txt_bytes(f.raw)
           ELSE IF EndsWith(name, Ext(<<"p", "d", "f">>))
             THEN extract_text_from_pdf_bytes(f)
           ELSE IF \/ EndsWith(name, Ext(<<"d", "o", "c", "x">>))
                   \/ EndsWith(name, Ext(<<"d", "o", "c">>))
             THEN extract_text_from_docx_bytes(f, lib)
           ELSE extract_text_from_txt_bytes(f.raw)

safe_extract_text_from_pdf(f, lib) ==
  IF ~lib.PyPDF2 THEN <<>>
  ELSE IF ~f.reader.opens THEN <<>>
  ELSE JoinLines(PageTexts(f.reader.pages))

safe_extract_text_from_docx(f, lib) ==
  IF ~lib.docx THEN <<>>
  ELSE IF ~f.document.opens THEN <<>>
  ELSE JoinLines(ParagraphTexts(f.document.paragraphs))

extract_text_from_uploaded(uploaded, lib) ==
  IF uploaded = <<>> THEN <<>>
  ELSE LET f == uploaded[1]
           name == Lower(f.name)
           is_pdf == EndsWith(name, Ext(<<"p", "d", "f">>))
           is_docx == \/ EndsWith(name, Ext(<<"d", "o", "c", "x">>))
                      \/ EndsWith(name, Ext(<<"d", "o", "c">>))
           pdf_text == safe_extract_text_from_pdf(f, lib)
           docx_text == safe_extract_text_from_docx(f, lib)
       IN  IF is_pdf /\ pdf_text # <<>> THEN pdf_text
           ELSE IF is_docx /\ docx_text # <<>> THEN docx_text
           ELSE extract_text_from_txt_bytes(f.raw)

NoReader == [opens |-> FALSE, pages |-> <<>>]

NoDocument == [opens |-> FALSE, paragraphs |-> <<>>]

(* the files of the calls; no text of a page has a line break *)
Files ==
  LET SeqsUpTo(S) == UNION {[1..k -> S] : k \in 0..MaxPages}
      raws == {<<>>, <<"h", "i">>, <<"h", "0xFF", "i">>}
      page_texts == {<<>>, <<"p">>, <<"q", "r">>}
      pages == {[raises |-> TRUE, text |-> <<>>]} \cup
               {[raises |-> FALSE, text |-> t] : t \in page_texts}
      readers == {NoReader} \cup {[opens |-> TRUE, pages |-> ps] : ps \in SeqsUpTo(pages)}
      documents == {NoDocument} \cup
                   {[opens |-> TRUE, paragraphs |-> ps] : ps \in SeqsUpTo(page_texts)}
      pdf_names == {<<"a">> \o Ext(<<"p", "d", "f">>), <<"A">> \o Ext(<<"P", "D", "F">>)}
      docx_names == {<<"a">> \o Ext(<<"d", "o", "c", "x">>), <<"a">> \o Ext(<<"D", "o", "c">>)}
      other_names == {<<"a">> \o Ext(<<"t", "x", "t">>), <<"a">> \o Ext(<<"T", "X", "T">>),
                      <<"a">> \o Ext(<<"r", "t", "f">>), <<"p", "d", "f">>}
  IN  {[name |-> n, raw |-> b, reader |-> r, document |-> NoDocument] :
         n \in pdf_names, b \in raws, r \in readers}
      \cup {[name |-> n, raw |-> b, reader |-> NoReader, document |-> d] :
              n \in docx_names, b \in raws, d \in documents}
      \cup {[name |-> n, raw |-> b, reader |-> NoReader, document |-> NoDocument] :
              n \in other_names, b \in raws}

InitExtract ==
  /\ NotAppIdle
  /\ NoTipsCall
  /\ called = ""
  /\ uploaded_file \in {<<>>} \cup {<<f>> : f \in Files}
  /\ libs \in [PyPDF2 : BOOLEAN, docx : BOOLEAN]
  /\ extracted = <<>>
  /\ NoWeightedCall
  /\ NoSession

(* utils/extractor.py imports PyPDF2 unguarded: it is there when the       *)
(* function is called                                                      *)
ExtractFileText ==
  /\ called = ""
  /\ libs.PyPDF2
  /\ called' = "extract_file_text"
  /\ extracted' = extract_file_text(uploaded_file, libs)
  /\ UNCHANGED <<not_app_vars, uploaded_file, libs, weighted_vars, session_vars>>

ExtractTextFromUploaded ==
  /\ called = ""
  /\ called' = "extract_text_from_uploaded"
  /\ extracted' = extract_text_from_uploaded(uploaded_file, libs)
  /\ UNCHANGED <<not_app_vars, uploaded_file, libs, weighted_vars, session_vars>>

NextExtract ==
  \/ ExtractFileText
  \/ ExtractTextFromUploaded

SpecExtract == InitExtract /\ [][NextExtract]_vars

----------------------------------------------------------------------------
(* The weighted score and the final score of a scan (streamlit_app.py).   *)
(* Scores are in hundredths.  The source computes in binary floating      *)
(* point and rounds to two decimals: the model computes the exact value   *)
(* and rounds it to the nearest hundredth, and where the exact value lies *)
(* half way between two hundredths, where the error of the floating-point *)
(* operations decides, it gives both.  Of the dicts matched and missing   *)
(* of a category the keys are kept, in the order of their insertion.      *)

MaxKeywords == 2

(* the integers nearest to num / den, for den > 0 and num >= 0 *)
RoundNearest(num, den) ==
  LET up == (2 * num + den) \div (2 * den)
  IN  IF (2 * num + den) % (2 * den) = 0 THEN {up - 1, up} ELSE {up}

(* compute_weighted_score normalising by w_hard alone *)
compute_weighted_score_ByHard(cat) ==
  LET hm == Len(cat.hard.matched)
      ht == hm + Len(cat.hard.missing)
      sm == Len(cat.soft.matched)
      st == sm + Len(cat.soft.missing)
      vm == Len(cat.verb.matched)
      vt == vm + Len(cat.verb.missing)
      h == IF ht # 0 THEN <<hm, ht>> ELSE <<1, 1>>
      s == IF st # 0 THEN <<sm, st>> ELSE <<1, 1>>
      v == IF vt # 0 THEN <<vm, vt>> ELSE <<1, 1>>
      num == 55 * h[1] * s[2] * v[2] + 20 * s[1] * h[2] * v[2] + 10 * v[1] * h[2] * s[2]
      den == h[2] * s[2] * v[2]
  IN  RoundNearest(10000 * num, 55 * den)

(* compute_weighted_score(cat_compare): the values round(score_pct, 2)    *)
(* can take.  hard_score, soft_score and verb_score are the fractions h,  *)
(* s and v; the weights 0.55, 0.2 and 0.1 are in hundredths, their sum is *)
(* 85 hundredths                                                          *)
compute_weighted_score(cat) ==
  LET hm == Len(cat.hard.matched)
      ht == hm + Len(cat.hard.missing)
      sm == Len(cat.soft.matched)
      st == sm + Len(cat.soft.missing)
      vm == Len(cat.verb.matched)
      vt == vm + Len(cat.verb.missing)
      h == IF ht # 0 THEN <<hm, ht>> ELSE <<1, 1>>
      s == IF st # 0 THEN <<sm, st>> ELSE <<1, 1>>
      v == IF vt # 0 THEN <<vm, vt>> ELSE <<1, 1>>
      num == 55 * h[1] * s[2] * v[2] + 20 * s[1] * h[2] * v[2] + 10 * v[1] * h[2] * s[2]
      den == h[2] * s[2] * v[2]
  IN  RoundNearest(10000 * num, 85 * den)

(* round((weighted_score * 0.7) + (sim_score * 0.3), 2): the values it    *)
(* can take                                                               *)
FinalScore(weighted, sim) == RoundNearest(7 * weighted + 3 * sim, 10)

(* the keywords of the comparisons of the calls *)
Keywords ==
  <<<<"j", "a", "v", "a">>,
    <<"s", "p", "r", "i", "n", "g">>,
    <<"s", "q", "l">>,
    <<"d", "o", "c", "k", "e", "r">>,
    <<"k", "a", "f", "k", "a">>,
    <<"r", "e", "d", "i", "s">>,
    <<"m", "a", "v", "e", "n">>,
    <<"j", "p", "a">>>>

(* a category with the first m keywords matched and the next k missing *)
Category(m, k) ==
  [matched |-> SubSeq(Keywords, 1, m), missing |-> SubSeq(Keywords, m + 1, m + k)]

Categories == {Category(m, k) : m \in 0..MaxKeywords, k \in 0..MaxKeywords}

SimScores == {0, 5, 3333, 5000, 9999, 10000}

InitWeighted ==
  /\ NotAppIdle
  /\ called = ""
  /\ cat_compare \in [hard : Categories, soft : Categories, verb : Categories]
  /\ sections = [summary |-> FALSE, experience |-> FALSE]
  /\ contact_info = [address |-> FALSE, email |-> FALSE, phone |-> FALSE]
  /\ score_pct = 0
  /\ tips = <<>>
  /\ NoExtractCall
  /\ weighted_score = 0
  /\ sim_score \in SimScores
  /\ final_score = 0
  /\ NoSession

ComputeWeightedScore ==
  /\ called = ""
  /\ called' = "compute_weighted_score"
  /\ weighted_score' \in compute_weighted_score(cat_compare)
  /\ UNCHANGED <<not_app_vars, extract_vars, sim_score, final_score, session_vars>>

(* page_scanner from the weighted score to the final score *)
CombineScores ==
  /\ called = "compute_weighted_score"
  /\ called' = "page_scanner"
  /\ final_score' \in FinalScore(weighted_score, sim_score)
  /\ UNCHANGED <<not_app_vars, extract_vars, weighted_score, sim_score, session_vars>>

NextWeighted ==
  \/ ComputeWeightedScore
  \/ CombineScores

SpecWeighted == InitWeighted /\ [][NextWeighted]_vars

----------------------------------------------------------------------------
(* The scan of the Scanner page (streamlit_app.py): the keyword sets, the  *)
(* detection of sections and of contact details, the comparison by         *)
(* category.                                                               *)

(* The keyword sets, each as the list of its members in sorted order, the  *)
(* order in which present_set visits them.                                 *)
HARD_SKILLS ==
  <<<<"a", "l", "g", "o", "r", "i", "t", "h", "m", "s">>, <<"a", "w", "s">>,
    <<"a", "z", "u", "r", "e">>,
    <<"b", "i", "t", "b", "u", "c", "k", "e", "t">>,
    <<"c", "i", " ", "c", "d">>,
    <<"c", "o", "n", "c", "u", "r", "r", "e", "n", "c", "y">>,
    <<"c", "o", "r", "e", " ", "j", "a", "v", "a">>,
    <<"d", "a", "t", "a", " ", "s", "t", "r", "u", "c", "t", "u", "r", "e", "s">>,
    <<"d", "e", "s", "i", "g", "n", " ", "p", "a", "t", "t", "e", "r", "n", "s">>,
    <<"d", "o", "c", "k", "e", "r">>, <<"g", "c", "p">>, <<"g", "i", "t">>,
    <<"g", "i", "t", "h", "u", "b">>, <<"g", "i", "t", "l", "a", "b">>,
    <<"g", "r", "a", "d", "l", "e">>, <<"g", "r", "a", "p", "h", "q", "l">>,
    <<"h", "i", "b", "e", "r", "n", "a", "t", "e">>,
    <<"h", "i", "b", "e", "r", "n", "a", "t", "e", " ", "o", "r", "m">>,
    <<"i", "n", "t", "e", "g", "r", "a", "t", "i", "o", "n", " ", "t", "e", "s", "t", "i", "n", "g">>,
    <<"j", "a", "v", "a">>, <<"j", "d", "b", "c">>,
    <<"j", "e", "n", "k", "i", "n", "s">>, <<"j", "p", "a">>,
    <<"j", "s", "p">>, <<"j", "u", "n", "i", "t">>, <<"k", "8", "s">>,
    <<"k", "a", "f", "k", "a">>,
    <<"k", "u", "b", "e", "r", "n", "e", "t", "e", "s">>,
    <<"m", "a", "r", "i", "a", "d", "b">>, <<"m", "a", "v", "e", "n">>,
    <<"m", "i", "c", "r", "o", "s", "e", "r", "v", "i", "c", "e", "s">>,
    <<"m", "o", "c", "k", "i", "t", "o">>,
    <<"m", "o", "n", "g", "o", "d", "b">>,
    <<"m", "u", "l", "t", "i", "t", "h", "r", "e", "a", "d", "i", "n", "g">>,
    <<"m", "y", "s", "q", "l">>, <<"n", "o", "s", "q", "l">>,
    <<"o", "r", "a", "c", "l", "e">>,
    <<"p", "e", "r", "f", "o", "r", "m", "a", "n", "c", "e", " ", "t", "u", "n", "i", "n", "g">>,
    <<"p", "o", "s", "t", "g", "r", "e">>,
    <<"p", "o", "s", "t", "g", "r", "e", "s", "q", "l">>,
    <<"r", "a", "b", "b", "i", "t", "m", "q">>, <<"r", "e", "d", "i", "s">>,
    <<"r", "e", "s", "t">>, <<"r", "e", "s", "t", " ", "a", "p", "i">>,
    <<"r", "e", "s", "t", " ", "a", "p", "i", " ", "d", "e", "v", "e", "l", "o", "p", "m", "e", "n", "t">>,
    <<"r", "e", "s", "t", "f", "u", "l">>,
    <<"s", "e", "r", "v", "l", "e", "t">>, <<"s", "o", "a", "p">>,
    <<"s", "p", "r", "i", "n", "g">>,
    <<"s", "p", "r", "i", "n", "g", " ", "b", "o", "o", "t">>,
    <<"s", "p", "r", "i", "n", "g", " ", "m", "v", "c">>,
    <<"s", "p", "r", "i", "n", "g", " ", "s", "e", "c", "u", "r", "i", "t", "y">>,
    <<"s", "q", "l">>,
    <<"u", "n", "i", "t", " ", "t", "e", "s", "t", "i", "n", "g">>>>

SOFT_SKILLS ==
  <<<<"a", "d", "a", "p", "t", "a", "b", "i", "l", "i", "t", "y">>,
    <<"a", "t", "t", "e", "n", "t", "i", "o", "n", " ", "t", "o", " ", "d", "e", "t", "a", "i", "l">>,
    <<"c", "l", "i", "e", "n", "t", " ", "f", "a", "c", "i", "n", "g">>,
    <<"c", "o", "a", "c", "h", "i", "n", "g">>,
    <<"c", "o", "l", "l", "a", "b", "o", "r", "a", "t", "i", "o", "n">>,
    <<"c", "o", "m", "m", "u", "n", "i", "c", "a", "t", "i", "o", "n">>,
    <<"c", "o", "n", "s", "t", "r", "u", "c", "t", "i", "v", "e", " ", "f", "e", "e", "d", "b", "a", "c", "k">>,
    <<"c", "r", "i", "t", "i", "c", "a", "l", " ", "t", "h", "i", "n", "k", "i", "n", "g">>,
    <<"l", "e", "a", "d", "e", "r", "s", "h", "i", "p">>,
    <<"m", "e", "n", "t", "o", "r", "i", "n", "g">>,
    <<"p", "r", "o", "b", "l", "e", "m", " ", "s", "o", "l", "v", "i", "n", "g">>,
    <<"s", "t", "a", "k", "e", "h", "o", "l", "d", "e", "r", " ", "m", "a", "n", "a", "g", "e", "m", "e", "n", "t">>,
    <<"t", "e", "a", "m", "w", "o", "r", "k">>,
    <<"t", "i", "m", "e", " ", "m", "a", "n", "a", "g", "e", "m", "e", "n", "t">>>>

ACTION_VERBS ==
  <<<<"a", "u", "t", "o", "m", "a", "t", "e">>, <<"b", "u", "i", "l", "d">>,
    <<"c", "r", "e", "a", "t", "e">>, <<"d", "e", "b", "u", "g">>,
    <<"d", "e", "p", "l", "o", "y">>, <<"d", "e", "s", "i", "g", "n">>,
    <<"d", "e", "v", "e", "l", "o", "p">>,
    <<"d", "o", "c", "u", "m", "e", "n", "t">>,
    <<"i", "m", "p", "l", "e", "m", "e", "n", "t">>,
    <<"i", "m", "p", "r", "o", "v", "e">>,
    <<"i", "n", "t", "e", "g", "r", "a", "t", "e">>, <<"l", "e", "a", "d">>,
    <<"m", "a", "i", "n", "t", "a", "i", "n">>,
    <<"m", "a", "n", "a", "g", "e">>,
    <<"o", "p", "t", "i", "m", "i", "z", "e">>,
    <<"r", "e", "f", "a", "c", "t", "o", "r">>, <<"t", "e", "s", "t">>>>

(* the text whose words are the tokens: Chars of it is " ".join(tokens) *)
TokensText(toks) == [i \in DOMAIN toks |-> [w |-> toks[i].t, n |-> toks[i].n]]

(* {w for w in keywords if w in " ".join(jd_tokens)}, sorted *)
Required(keywords, joined) ==
  LET InJd(kw) == Contains(joined, kw)
  IN  SelectSeq(keywords, InJd)

(* kw.split()[-1] for a keyword, whose words single spaces separate *)
LastWord(kw) ==
  LET spaces == {i \in DOMAIN kw : kw[i] = " "}
  IN  IF spaces = {} THEN kw
      ELSE SubSeq(kw, 1 + CHOOSE i \in spaces : \A j \in spaces : j <= i, Len(kw))

(* present_set(req_set, source_counts): the keys of present and of         *)
(* missing, in the order of their insertion.  The counts of a Counter are  *)
(* positive: present_count > 0 when some key of source_counts holds main   *)
(* or kw.                                                                  *)
present_set(req, source_counts) ==
  LET Present(kw) ==
        LET main == normalize_word(LastWord(kw))
        IN  \E i \in DOMAIN source_counts :
              Contains(source_counts[i].k, main) \/ Contains(source_counts[i].k, kw)
      Absent(kw) == ~Present(kw)
  IN  [matched |-> SelectSeq(req, Present), missing |-> SelectSeq(req, Absent)]

(* categorize_and_compare: the fields hard, soft and verb of the result *)
Categorize(r_text, j_text) ==
  LET joined == Chars(TokensText(tokenize(j_text)))
      r_counts == Counter(tokenize(r_text))
  IN  [hard |-> present_set(Required(HARD_SKILLS, joined), r_counts),
       soft |-> present_set(Required(SOFT_SKILLS, joined), r_counts),
       verb |-> present_set(Required(ACTION_VERBS, joined), r_counts)]

(* re.search of \bpat in s: pat starts with a word character *)
SearchStart(s, pat) ==
  \E i \in 1..(Len(s) - Len(pat) + 1) :
    /\ \A j \in DOMAIN pat : s[i + j - 1] = pat[j]
    /\ Boundary(s, i)

detect_sections(text) ==
  LET lowered == Lower(Chars(text))
  IN  [summary |-> SearchWords(lowered, {<<"s", "u", "m", "m", "a", "r", "y">>,
                                         <<"a", "b", "o", "u", "t">>,
                                         <<"p", "r", "o", "f", "i", "l", "e">>}),
       education |-> \/ SearchWords(lowered, {<<"e", "d", "u", "c", "a", "t", "i", "o", "n">>,
                                              <<"d", "e", "g", "r", "e", "e">>})
                     \/ SearchStart(lowered, <<"g", "r", "a", "d", "u", "a", "t">>),
       experience |-> SearchWords(lowered,
                        {<<"e", "x", "p", "e", "r", "i", "e", "n", "c", "e">>,
                         <<"w", "o", "r", "k", " ", "h", "i", "s", "t", "o", "r", "y">>,
                         <<"e", "m", "p", "l", "o", "y", "m", "e", "n", "t">>,
                         <<"p", "r", "o", "j", "e", "c", "t", "s">>})]

Letters == LowerChars \cup UpperChars

(* [A-Za-z0-9._%+-]+@[A-Za-z0-9.-]+\.[A-Za-z]{2,} in s *)
HasEmail(s) ==
  LET local == Letters \cup DigitChars \cup {".", "_", "%", "+", "-"}
      domain == Letters \cup DigitChars \cup {".", "-"}
  IN  \E i \in DOMAIN s :
        /\ s[i] = "@"
        /\ i > 1 /\ s[i - 1] \in local
        /\ \E j \in (i + 2)..(RunEnd(domain, s, i + 1) - 1) :
             /\ s[j] = "."
             /\ j + 2 \in DOMAIN s
             /\ s[j + 1] \in Letters
             /\ s[j + 2] \in Letters

(* (?<!\d)(?:\+?\d{1,3}[-.\s]?)?(?:\(?\d{2,4}\)?[-.\s]?)?\d{6,10}(?!\d) in *)
(* s: the last group is the end of a whole run of digits, of 6 to 10       *)
(* digits after a separator or of up to 3 + 4 more with the groups before  *)
(* it in the same run, and no match starts inside a run                    *)
HasPhone(s) ==
  \E i \in DOMAIN s :
    /\ s[i] \in DigitChars
    /\ ~(i - 1 \in DOMAIN s /\ s[i - 1] \in DigitChars)
    /\ RunEnd(DigitChars, s, i) - i \in 6..17

AddressWords ==
  {<<"c", "i", "t", "y">>, <<"s", "t", "a", "t", "e">>,
   <<"p", "r", "o", "v", "i", "n", "c", "e">>, <<"s", "t", "r", "e", "e", "t">>,
   <<"r", "o", "a", "d">>, <<"a", "v", "e">>, <<"a", "v", "e", "n", "u", "e">>,
   <<"l", "a", "n", "e">>, <<"p", "u", "n", "e">>, <<"m", "u", "m", "b", "a", "i">>,
   <<"d", "e", "l", "h", "i">>, <<"b", "a", "n", "g", "a", "l", "o", "r", "e">>,
   <<"h", "y", "d", "e", "r", "a", "b", "a", "d">>}

(* \b\d{5,6}\b in s *)
HasPinCode(s) ==
  \E i \in DOMAIN s :
    /\ s[i] \in DigitChars
    /\ Boundary(s, i)
    /\ RunEnd(DigitChars, s, i) - i \in 5..6
    /\ Boundary(s, RunEnd(DigitChars, s, i))

(* https?://(www\.)?[a-z0-9\-_]+\.[a-z]{2,} in s *)
HasWebsite(s) ==
  LET host == LowerChars \cup DigitChars \cup {"-", "_"}
      StartsAt(i, pat) == \A j \in DOMAIN pat : i + j - 1 \in DOMAIN s /\ s[i + j - 1] = pat[j]
      HostAt(i) == \E j \in (i + 1)..RunEnd(host, s, i) :
                     /\ j + 2 \in DOMAIN s
                     /\ s[j] = "."
                     /\ s[j + 1] \in LowerChars
                     /\ s[j + 2] \in LowerChars
      www == <<"w", "w", "w", ".">>
      After(i) == HostAt(i) \/ (StartsAt(i, www) /\ HostAt(i + 4))
  IN  \E i \in DOMAIN s :
        \/ StartsAt(i, <<"h", "t", "t", "p", ":", "/", "/">>) /\ After(i + 7)
        \/ StartsAt(i, <<"h", "t", "t", "p", "s", ":", "/", "/">>) /\ After(i + 8)

detect_contact_info(r_text) ==
  LET s == Chars(r_text)
      lower == Lower(s)
  IN  IF s = <<>>
        THEN [email |-> FALSE, phone |-> FALSE, address |-> FALSE, linkedin |-> FALSE,
              website |-> FALSE]
        ELSE [email |-> HasEmail(s),
              phone |-> HasPhone(s),
              address |-> SearchWords(lower, AddressWords) \/ HasPinCode(s),
              linkedin |-> Contains(lower, <<"l", "i", "n", "k", "e", "d", "i", "n", ".",
                                             "c", "o", "m">>),
              website |-> HasWebsite(lower)]


(* StripText leaving the text as it is *)
StripText_Keep(text) == text

(* str.strip() of a text: the runs of whitespace at its ends go.  The     *)
(* words of the texts of the session are whitespace throughout or hold    *)
(* none.                                                                  *)
RECURSIVE StripText(_)
StripText(text) ==
  IF text = <<>> THEN <<>>
  ELSE IF IsSpaceWord(Head(text).w) THEN StripText(Tail(text))
  ELSE IF IsSpaceWord(text[Len(text)].w) THEN StripText(SubSeq(text, 1, Len(text) - 1))
  ELSE text

(* the text of a string: its words are what single spaces separate *)
RECURSIVE AsText(_)
AsText(s) ==
  LET spaces == {i \in DOMAIN s : s[i] = " "}
  IN  IF s = <<>> THEN <<>>
      ELSE IF spaces = {} THEN <<[w |-> s, n |-> 1]>>
      ELSE LET i == CHOOSE x \in spaces : \A y \in spaces : x <= y
           IN  <<[w |-> SubSeq(s, 1, i - 1), n |-> 1]>>
               \o (IF i = Len(s) THEN <<[w |-> <<>>, n |-> 1]>>
                   ELSE AsText(SubSeq(s, i + 1, Len(s))))

ExcerptLen == 3000

(* values of Python whose type differs from one entry to the other *)
Float(x) == [float |-> x]

Str(s) == [str |-> s]

IsNumber(v) == "float" \in DOMAIN v

(* page_scanner, the branch of a scan with a resume text and a job         *)
(* description: the results it can build at the time of the clock.  The    *)
(* timestamp is the reading of the clock, the scores are in hundredths.    *)
ScanResults(rtext, jd_val, uploaded_name, ck_linkedin, sklearn, clock) ==
  UNION {
    LET cat == [hard |-> cats.hard, soft |-> cats.soft, verb |-> cats.verb,
                matched_simple |-> simple.matched_simple,
                missing_simple |-> simple.missing_simple,
                jd_freq |-> simple.jd_freq, r_counts |-> simple.r_counts]
        searchability == (IF contact.address THEN 0 ELSE 1)
                         + (IF contact.email THEN 0 ELSE 1)
                         + (IF contact.phone THEN 0 ELSE 1)
        InHard(m) == m \in Range(HARD_SKILLS)
        InSoft(m) == m \in Range(SOFT_SKILLS)
        hard_issues == IF cats.hard.missing # <<>> THEN Len(cats.hard.missing)
                       ELSE Len(SelectSeq(simple.missing_simple, InHard))
        soft_issues == IF cats.soft.missing # <<>> THEN Len(cats.soft.missing)
                       ELSE Len(SelectSeq(simple.missing_simple, InSoft))
    IN  UNION {UNION {
          {[timestamp |-> clock,
            score |-> Float(final),
            sim_score |-> sim,
            weighted_score |-> weighted,
            searchability_issues |-> searchability,
            hard_issues |-> hard_issues,
            soft_issues |-> soft_issues,
            recruiter_tips_count |-> Len(suggestions),
            formatting_issues |-> Len(simple_ats_checks(rtext)),
            sections |-> sects,
            contact_info |-> contact,
            cat |-> cat,
            suggestions |-> suggestions,
            resume_excerpt |-> IF Len(chars) > ExcerptLen
                                 THEN SubSeq(chars, 1, ExcerptLen) \o <<".", ".", ".">>
                                 ELSE chars,
            resume_name |-> uploaded_name,
            full_resume |-> rtext,
            full_jd |-> jd_val,
            linkedin_suggestions |-> ck_linkedin] :
             suggestions \in
               {generate_recruiter_tips(rtext, jd_val, cat, sects, contact, final)}} :
          final \in FinalScore(weighted, sim)} :
          weighted \in compute_weighted_score(cat)} :
      sects \in {detect_sections(rtext)},
      contact \in {detect_contact_info(rtext)},
      simple \in {categorize_and_compare(rtext, jd_val)},
      cats \in {Categorize(rtext, jd_val)},
      sim \in {compute_similarity_score(rtext, jd_val, sklearn).value},
      chars \in {Chars(rtext)}}

MaxActions == 2

PASTED == <<"p", "a", "s", "t", "e", "d", "_", "r", "e", "s", "u", "m", "e", ".", "t", "x", "t">>

UNTITLED == <<"U", "n", "t", "i", "t", "l", "e", "d">>

(* the texts typed into the text areas *)
PasteTexts ==
  {<<>>,
   <<Run1(<<"\t">>)>>,
   <<Run1(<<"\n">>), Run1(<<"J", "a", "v", "a">>), Run1(<<"S", "Q", "L">>),
     Run1(<<"d", "e", "v", "e", "l", "o", "p", "e", "r">>), Run1(<<"\t">>)>>}

(* the files uploaded: a text file and a PDF without bytes that PyPDF2     *)
(* cannot open                                                             *)
Uploads ==
  {[name |-> <<"c", "v">> \o Ext(<<"t", "x", "t">>),
    raw |-> <<"j", "a", "v", "a", " ", "a", "@", "b", ".", "i", "o">>,
    reader |-> NoReader, document |-> NoDocument],
   [name |-> <<"c", "v">> \o Ext(<<"p", "d", "f">>), raw |-> <<>>,
    reader |-> NoReader, document |-> NoDocument]}

(* the job titles given on the page Job Tracker *)
Titles == {<<>>, <<"D", "e", "v">>}

InitSession ==
  /\ NotAppIdle
  /\ NoTipsCall
  /\ called = ""
  /\ uploaded_file = <<>>
  /\ libs = [PyPDF2 |-> TRUE, docx |-> TRUE]
  /\ extracted = <<>>
  /\ NoWeightedCall
  /\ NoSession

not_session_vars == <<not_app_vars, libs, extracted, weighted_vars>>

(* the file uploader: a file is chosen or taken away *)
Upload ==
  /\ uploaded_file' \in ({<<>>} \cup {<<f>> : f \in Uploads}) \ {uploaded_file}
  /\ called' = "file_uploader"
  /\ UNCHANGED <<not_session_vars, current_result, scan_history, paste_resume, paste_jd,
                 opt_linkedin, now>>

(* the text areas of the Scanner page *)
EditResume ==
  /\ paste_resume' \in PasteTexts \ {paste_resume}
  /\ called' = "paste_resume_area"
  /\ UNCHANGED <<not_session_vars, uploaded_file, current_result, scan_history, paste_jd,
                 opt_linkedin, now>>

EditJd ==
  /\ paste_jd' \in PasteTexts \ {paste_jd}
  /\ called' = "paste_jd_area"
  /\ UNCHANGED <<not_session_vars, uploaded_file, current_result, scan_history,
                 paste_resume, opt_linkedin, now>>

(* the checkbox of the Scanner page *)
ToggleLinkedin ==
  /\ opt_linkedin' = ~opt_linkedin
  /\ called' = "opt_linkedin"
  /\ UNCHANGED <<not_session_vars, uploaded_file, current_result, scan_history,
                 paste_resume, paste_jd, now>>

(* the button "Scan / Analyze" of the Scanner page *)
Scan ==
  /\ now < MaxActions
  /\ now' = now + 1
  /\ called' = "page_scanner"
  /\ \E rtext \in {IF uploaded_file # <<>>
                      THEN AsText(extract_text_from_uploaded(uploaded_file, libs))
                      ELSE StripText(paste_resume)},
        uploaded_name \in {IF uploaded_file # <<>> THEN uploaded_file[1].name ELSE PASTED},
        jd_val \in {StripText(paste_jd)} :
       IF rtext = <<>> \/ jd_val = <<>>
         THEN UNCHANGED <<current_result, scan_history>>
         ELSE \E r \in ScanResults(rtext, jd_val, uploaded_name, opt_linkedin,
                                   SKLEARN_AVAILABLE, now) :
                /\ current_result' = <<r>>
                /\ scan_history' = <<r>> \o scan_history
  /\ UNCHANGED <<not_session_vars, uploaded_file, paste_resume, paste_jd, opt_linkedin>>

(* the button "Add to Tracker" of the page Job Tracker; the application   *)
(* date is the day of the clock or the first day                           *)
AddToTracker ==
  /\ now < MaxActions
  /\ now' = now + 1
  /\ called' = "page_tracker"
  /\ \E title \in Titles, comp \in {"Acme"}, date \in {0, now}, status \in {"Applied"} :
       scan_history' =
         <<[resume_name |-> IF title # <<>> THEN title ELSE UNTITLED,
            timestamp |-> date,
            score |-> Str("Tracked"),
            note |-> comp,
            status |-> status]>> \o scan_history
  /\ UNCHANGED <<not_session_vars, uploaded_file, current_result, paste_resume, paste_jd,
                 opt_linkedin>>

NextSession ==
  \/ Upload
  \/ EditResume
  \/ EditJd
  \/ ToggleLinkedin
  \/ Scan
  \/ AddToTracker

SpecSession == InitSession /\ [][NextSession]_vars

----------------------------------------------------------------------------
(* Properties of the similarity scorer *)

IsScoreCall == called \in {"compute_similarity_score", "compute_match_score"}

(* the terms the scorer called sees in a text: those of its vectorizer,   *)
(* or those of tokenize when scikit-learn is not available                *)
ScorerTerms(text) ==
  IF called = "compute_match_score" THEN MatchTerms(clean_text(text))
  ELSE IF SKLEARN_AVAILABLE THEN SimilarityTerms(text)
  ELSE tokenize(text)

IsBlank(text) == \A i \in DOMAIN text : IsSpaceWord(text[i].w)

(* C1: every score returned by compute_similarity_score and by            *)
(* compute_match_score lies in the closed range [0, 100], that is in      *)
(* 0..10000 hundredths.                                                   *)
C1_ScoreInRange == IsScoreCall => score >= 0 /\ score <= 10000

(* a score strictly inside the range, for texts that differ *)
C1_Witness ==
  /\ called = "compute_similarity_score"
  /\ ~SKLEARN_AVAILABLE
  /\ score > 0
  /\ score < 10000

C3_SelfIsHundred ==
  (called = "compute_similarity_score" /\ resume_text = jd_text /\ tokenize(resume_text) # <<>>)
    => score = 10000

(* a text of two different tokens compared with itself *)
C3_Witness ==
  /\ called = "compute_similarity_score"
  /\ resume_text = jd_text
  /\ Cardinality(Keys(Counter(tokenize(resume_text)))) = 2
  /\ score = 10000

(* the term counts of the two texts as the scorer called sees them *)
ResumeCounts == Counter(ScorerTerms(resume_text))

JdCounts == Counter(ScorerTerms(jd_text))

(* the two count vectors have the same direction: the same terms, in      *)
(* proportional counts                                                    *)
SameDirection(rc, jc) ==
  /\ Keys(rc) = Keys(jc)
  /\ \A t \in Keys(rc), u \in Keys(rc) :
       CountOf(rc, t) * CountOf(jc, u) = CountOf(rc, u) * CountOf(jc, t)

(* the cosine of the two vectors the scorer compares is at least 0.99995, *)
(* so that 100 times it rounds to 100.00                                  *)
CosineRoundsToHundred(rc, jc) ==
  LET all == Keys(rc) \cup Keys(jc)
      dot == BigOf(Dot(rc, jc, all))
      plain == BigMul(BigOf(SumSq(rc, all)), BigOf(SumSq(jc, all)))
      weighted == BigMul(TfidfNormSq(rc, jc), TfidfNormSq(jc, rc))
      den == BigOf(IdfSqDen)
      sq == BigOf(19999 * 19999)
      scale == BigOf(400000000)
  IN  IF SKLEARN_AVAILABLE
        THEN BigLeq(BigMul(sq, weighted), BigMul(scale, BigMul(BigMul(den, dot), BigMul(den, dot))))
        ELSE BigLeq(BigMul(sq, plain), BigMul(scale, BigMul(dot, dot)))

(* C4 as stated: non-empty texts whose tokenize tokens have no token in   *)
(* common score 0.                                                        *)
C4_Original ==
  (/\ called = "compute_similarity_score"
   /\ resume_text # <<>>
   /\ jd_text # <<>>
   /\ Keys(Counter(tokenize(resume_text))) \cap Keys(Counter(tokenize(jd_text))) = {})
    => score = 0

(* C4 amended: non-empty texts score 0 when they have no term in common   *)
(* among the terms the path taken compares: the tokens of tokenize on the *)
(* fallback path, the lower-cased \w+ words of the vectorizer on the      *)
(* TF-IDF path (which keeps stopwords and does no stemming).              *)
C4_NoCommonTermIsZero ==
  (/\ called = "compute_similarity_score"
   /\ resume_text # <<>>
   /\ jd_text # <<>>
   /\ Keys(ResumeCounts) \cap Keys(JdCounts) = {})
    => score = 0

(* two texts with tokens but none in common, on the fallback path *)
C4_Witness ==
  /\ called = "compute_similarity_score"
  /\ ~SKLEARN_AVAILABLE
  /\ Keys(ResumeCounts) # {}
  /\ Keys(JdCounts) # {}
  /\ Keys(ResumeCounts) \cap Keys(JdCounts) = {}
  /\ score = 0

(* C5 as stated: the score is 100 only for two vectors of the same        *)
(* direction, also after the rounding to two decimals.                    *)
C5_Original ==
  (called = "compute_similarity_score" /\ score = 10000)
    => SameDirection(ResumeCounts, JdCounts)

(* C5 amended: two non-zero vectors of the same direction score 100, and  *)
(* a score of 100 is returned only when the cosine of the two vectors is  *)
(* at least 0.99995, which the rounding to two decimals turns into 100;   *)
(* the directions may differ within that distance.                        *)
C5_HundredIffRoundsToHundred ==
  (called = "compute_similarity_score" /\ resume_text # <<>> /\ jd_text # <<>>) =>
    LET rc == ResumeCounts
        jc == JdCounts
    IN  /\ (Keys(rc) # {} /\ SameDirection(rc, jc)) => score = 10000
        /\ score = 10000 => CosineRoundsToHundred(rc, jc)

(* two vectors of different directions that score 100 *)
C5_Witness ==
  /\ called = "compute_similarity_score"
  /\ score = 10000
  /\ ~SameDirection(ResumeCounts, JdCounts)

----------------------------------------------------------------------------
(* Properties of the keyword comparator *)

(* the tokens of the job description, and how often and where first each  *)
(* occurs in them                                                         *)
JdTokens == tokenize(jd_text)

Distinct(toks) == {toks[i].t : i \in DOMAIN toks}

JdDistinct == Distinct(JdTokens)

Occurrences(toks, t) ==
  LET at == {i \in DOMAIN toks : toks[i].t = t}
  IN  SumOver([i \in at |-> toks[i].n], at)

FirstSeen(toks, t) ==
  CHOOSE i \in DOMAIN toks :
    toks[i].t = t /\ \A j \in DOMAIN toks : toks[j].t = t => i <= j

(* t ranks before u: more frequent, or as frequent and seen first *)
RanksBefore(toks, t, u) ==
  \/ Occurrences(toks, t) > Occurrences(toks, u)
  \/ Occurrences(toks, t) = Occurrences(toks, u) /\ FirstSeen(toks, t) < FirstSeen(toks, u)

NoDuplicates(s) == \A i \in DOMAIN s, j \in DOMAIN s : s[i] = s[j] => i = j

Min(a, b) == IF a < b THEN a ELSE b

(* C6: matched_simple and missing_simple of categorize_and_compare are    *)
(* disjoint, hold no token twice, and together are exactly the terms      *)
(* extract_top_terms selects from the job description with top_n = 150:   *)
(* all its distinct tokens when they are fewer than 150.                  *)
C6_DisjointPartition ==
  called = "categorize_and_compare" =>
    LET distinct == JdDistinct
    IN  /\ Range(matched) \cap Range(missing) = {}
        /\ NoDuplicates(matched \o missing)
        /\ Range(matched) \cup Range(missing) = Range(extract_top_terms(jd_text, CompareTopN).terms)
        /\ Cardinality(distinct) < CompareTopN => Range(matched) \cup Range(missing) = distinct
        /\ Range(matched) = distinct \cap Keys(Counter(tokenize(resume_text)))

(* a job description with a token of the resume and one not of it *)
C6_Witness ==
  /\ called = "categorize_and_compare"
  /\ matched # <<>>
  /\ missing # <<>>

(* C7: in matched_simple and in missing_simple the tokens come in         *)
(* descending frequency of jd_freq, and jd_freq gives for every token of  *)
(* the two lists the number of its occurrences in the job description.    *)
C7_DescendingFrequency ==
  called = "categorize_and_compare" =>
    LET toks == JdTokens
    IN  /\ \A list \in {matched, missing} :
             \A i \in DOMAIN list, j \in DOMAIN list :
               i < j => CountOf(freq, list[i]) >= CountOf(freq, list[j])
        /\ \A t \in Range(matched) \cup Range(missing) :
             /\ t \in Keys(freq)
             /\ CountOf(freq, t) = Occurrences(toks, t)

(* two missing tokens, the more frequent one seen later in the job        *)
(* description and listed first                                           *)
C7_Witness ==
  /\ called = "categorize_and_compare"
  /\ Len(missing) = 2
  /\ CountOf(freq, missing[1]) > CountOf(freq, missing[2])
  /\ FirstSeen(JdTokens, missing[2]) < FirstSeen(JdTokens, missing[1])

(* C8: extract_top_terms returns min(top_n, distinct tokens) distinct     *)
(* tokens of the text, ordered by descending frequency and, for equal     *)
(* frequency, by first occurrence; every token left out ranks after every *)
(* token returned; the returned table gives each returned token its       *)
(* frequency.                                                             *)
C8_TopTerms ==
  called = "extract_top_terms" =>
    LET toks == JdTokens
        distinct == Distinct(toks)
    IN  /\ Range(terms) \subseteq distinct
        /\ NoDuplicates(terms)
        /\ Len(terms) = Min(top_n, Cardinality(distinct))
        /\ \A i \in DOMAIN terms, j \in DOMAIN terms : i < j => RanksBefore(toks, terms[i], terms[j])
        /\ \A t \in Range(terms), u \in distinct \ Range(terms) : RanksBefore(toks, t, u)
        /\ \A t \in Range(terms) : CountOf(freq, t) = Occurrences(toks, t)

(* of two tokens the one seen later is the more frequent, and the only    *)
(* one returned                                                           *)
C8_Witness ==
  /\ called = "extract_top_terms"
  /\ top_n = 1
  /\ Cardinality(JdDistinct) = 2
  /\ Len(terms) = 1
  /\ FirstSeen(JdTokens, terms[1]) = 2

(* C9: categorize_and_compare does not raise, and: for an empty job       *)
(* description matched_simple, missing_simple and jd_freq are empty; for  *)
(* an empty resume matched_simple is empty and missing_simple is the list *)
(* of the selected terms of the job description; for a resume equal to    *)
(* the job description missing_simple is empty and matched_simple is the  *)
(* list of the selected terms.                                            *)
C9_DegenerateCompare ==
  called = "categorize_and_compare" =>
    LET selected == extract_top_terms(jd_text, CompareTopN).terms
    IN  /\ ~raised
        /\ Range(selected) = JdDistinct
        /\ jd_text = <<>> => matched = <<>> /\ missing = <<>> /\ freq = <<>>
        /\ resume_text = <<>> => matched = <<>> /\ missing = selected
        /\ resume_text = jd_text => missing = <<>> /\ matched = selected

(* an empty resume against a job description of two tokens *)
C9_Witness ==
  /\ called = "categorize_and_compare"
  /\ resume_text = <<>>
  /\ Len(missing) = 2
  /\ matched = <<>>

(* the words get_keywords finds in the two texts *)
JdWords == WordSet(jd_text)

ResumeWords == WordSet(resume_text)

(* s is the list of the k smallest members of S, or of all of them, in    *)
(* ascending order                                                        *)
IsSortedPrefix(s, S, k) ==
  /\ Range(s) \subseteq S
  /\ Len(s) = Min(k, Cardinality(S))
  /\ \A i \in DOMAIN s, j \in DOMAIN s : i < j => StrLess(s[i], s[j])
  /\ \A t \in Range(s), u \in S \ Range(s) : StrLess(t, u)

(* C10 as stated: matched and missing of get_keywords are disjoint and    *)
(* together hold at most top_n tokens.                                    *)
C10_Original ==
  called = "get_keywords" =>
    /\ Range(matched) \cap Range(missing) = {}
    /\ Len(matched) + Len(missing) <= top_n

(* C10 amended: matched and missing of get_keywords are disjoint; matched *)
(* is the list of the first top_n words, in ascending order, that the job *)
(* description shares with the resume, missing the list of the first      *)
(* top_n words of the job description that the resume lacks; each list is *)
(* cut to top_n on its own, so together they hold at most 2 * top_n       *)
(* words, and they are all the distinct words of the job description when *)
(* neither list is cut.                                                   *)
C10_KeywordLists ==
  called = "get_keywords" =>
    LET jd_words == JdWords
        shared == jd_words \cap ResumeWords
        lacking == jd_words \ shared
    IN  /\ Range(matched) \cap Range(missing) = {}
        /\ IsSortedPrefix(matched, shared, top_n)
        /\ IsSortedPrefix(missing, lacking, top_n)
        /\ Len(matched) + Len(missing) <= 2 * top_n
        /\ (Cardinality(shared) <= top_n /\ Cardinality(lacking) <= top_n)
             => Range(matched) \cup Range(missing) = jd_words

(* top_n = 1 and a word in each list: more than top_n words together *)
C10_Witness ==
  /\ called = "get_keywords"
  /\ top_n = 1
  /\ Len(matched) = 1
  /\ Len(missing) = 1

----------------------------------------------------------------------------
(* Properties of the tokenizer *)

(* " ".join(tokens): the text whose words are the tokens *)
JoinTokens(toks) == [i \in DOMAIN toks |-> [w |-> toks[i].t, n |-> toks[i].n]]

(* C11: tokenize is idempotent: the tokens of a text, joined by spaces,   *)
(* tokenize to the same tokens; and normalize_word applied to a string it *)
(* returned removes no further character.                                 *)
C11_Idempotent ==
  /\ called = "tokenize" => tokenize(JoinTokens(tokens)) = tokens
  /\ called = "normalize_word" => normalize_word(stem) = stem

(* the argument of normalize_word in lower case and without the           *)
(* characters other than a-z and 0-9 at its ends                          *)
Stripped == StripEnds(Lower(word))

(* Stripped without its last k characters *)
Without(k) == SubSeq(Stripped, 1, Len(Stripped) - k)

(* the suffixes that end Stripped, and those of them that leave at least  *)
(* two characters, by their places in the priority order                  *)
Ending == {i \in DOMAIN Suffixes : EndsWith(Stripped, Suffixes[i])}

Removable == {i \in Ending : Len(Stripped) - Len(Suffixes[i]) >= 2}

First(S) == CHOOSE i \in S : \A j \in S : i <= j

(* C12 as stated: only the first suffix of the priority order that ends   *)
(* the token is considered; it is removed if it leaves at least two       *)
(* characters, and otherwise the token is returned with no suffix removed. *)
C12_Original ==
  called = "normalize_word" =>
    IF Ending = {} THEN stem = Stripped
    ELSE IF First(Ending) \in Removable THEN stem = Without(Len(Suffixes[First(Ending)]))
    ELSE stem = Stripped

(* C12 amended: normalize_word removes at most one suffix: the first      *)
(* suffix of the priority order (ings, ing, ed, es, s) that ends the      *)
(* token and leaves at least two characters; a suffix that ends the token *)
(* but leaves fewer is passed over and a later one may still be removed   *)
(* (sings gives sing).  Every token from which a suffix was removed has a *)
(* stem of at least two characters.                                       *)
C12_OneSuffix ==
  called = "normalize_word" =>
    /\ IF Removable = {} THEN stem = Stripped
       ELSE stem = Without(Len(Suffixes[First(Removable)]))
    /\ stem # Stripped => Len(stem) >= 2

(* the first suffix that ends the token leaves too little, a later one is *)
(* removed                                                                *)
C12_Witness ==
  /\ called = "normalize_word"
  /\ Ending # {}
  /\ First(Ending) \notin Removable
  /\ stem # Stripped

(* a token list written out: every token as often as its run says *)
RECURSIVE Flat(_)
Flat(toks) ==
  IF toks = <<>> THEN <<>>
  ELSE Repeat(<<Head(toks).t>>, Head(toks).n) \o Flat(Tail(toks))

(* the occurrences of candidates in a text, in the order of the text *)
RECURSIVE CandidateList(_)
CandidateList(text) ==
  IF text = <<>> THEN <<>>
  ELSE Repeat(FindAll(TOKEN_RE, 1, Head(text).w), Head(text).n) \o CandidateList(Tail(text))

AllDigits(c) == c # <<>> /\ \A i \in DOMAIN c : c[i] \in DigitChars

(* the distinct tokens of a token list *)
TokenSet(toks) == {toks[i].t : i \in DOMAIN toks}

(* C14 as stated: tokenize drops no candidate: there are as many tokens   *)
(* as occurrences of candidates, and every candidate of digits only and   *)
(* every candidate of fewer than 2 characters is in the output unmodified. *)
C14_Original ==
  called = "tokenize" =>
    /\ Len(Flat(tokens)) = Len(CandidateList(resume_text))
    /\ \A c \in Candidates(resume_text) :
         (AllDigits(c) \/ Len(c) < 2) => c \in TokenSet(tokens)

(* C14 amended: tokenize drops the candidates whose normal form is empty, *)
(* is a stopword or has fewer than 2 characters, and only those; so a     *)
(* candidate of one character, a single digit included, is dropped, and   *)
(* every candidate of two or more digits only is in the output            *)
(* unmodified.                                                            *)
C14_DropsShortAndStopwords ==
  called = "tokenize" =>
    LET out == TokenSet(tokens)
    IN  \A c \in Candidates(resume_text) :
          /\ normalize_word(c) \in out
               <=> (normalize_word(c) # <<>> /\ normalize_word(c) \notin STOPWORDS
                    /\ Len(normalize_word(c)) >= 2)
          /\ Len(c) < 2 => c \notin out
          /\ (AllDigits(c) /\ Len(c) >= 2) => c \in out

(* a text with a single digit, which is dropped, and a number of two      *)
(* digits, which is kept                                                  *)
C14_Witness ==
  /\ called = "tokenize"
  /\ <<"7">> \in Candidates(resume_text)
  /\ <<"7">> \notin TokenSet(tokens)
  /\ <<"4", "2">> \in TokenSet(tokens)

----------------------------------------------------------------------------
(* Properties of the formatting checks *)

IsChecksCall == called \in {"simple_ats_checks", "nlp.simple_ats_checks"}

(* the conditions of the checks on the string s: of the function of       *)
(* streamlit_app.py, and of the function of utils/nlp.py                  *)
CheckConditions(s) ==
  IF called = "simple_ats_checks"
    THEN {<<Issues.columns, Contains(s, <<"\t">>) \/ Contains(s, <<" ", " ", " ", " ">>)>>,
          <<Issues.images, Contains(Lower(s), <<"<", "i", "m", "g">>)
                           \/ Contains(Lower(s), <<"i", "m", "a", "g", "e", ":">>)>>,
          <<Issues.bullets, Range(s) \cap BulletChars # {}>>,
          <<Issues.short, SplitCount(s) < MinWords>>}
    ELSE {<<NlpIssues.columns, Contains(s, <<"\t">>) \/ Contains(s, <<" ", " ">>)>>,
          <<NlpIssues.images, Contains(s, <<"<", "i", "m", "g">>)
                              \/ Contains(Lower(s), <<"i", "m", "a", "g", "e", ":">>)>>,
          <<NlpIssues.short, LineCount(s) < MinLines>>}

(* every warning is in the list, once, exactly when its condition holds   *)
WarningsAsConditions(s) ==
  /\ \A c \in CheckConditions(s) : (c[1] \in Range(issues)) <=> c[2]
  /\ Range(issues) \subseteq {c[1] : c \in CheckConditions(s)}
  /\ \A i, j \in DOMAIN issues : issues[i] = issues[j] => i = j
  /\ (issues = <<>>) <=> (\A c \in CheckConditions(s) : ~c[2])

(* C15 as stated: for every text each warning is returned exactly when    *)
(* the condition of its check holds, the list is empty exactly when no    *)
(* condition holds, and the call does not raise.                          *)
C15_Original == IsChecksCall => (~raised /\ WarningsAsConditions(Chars(resume_text)))

(* C15 amended: for the empty text the list is empty and no check is      *)
(* made, although the condition of the check of the length holds; for     *)
(* every other text each warning is returned exactly when the condition   *)
(* of its check holds, whatever the other checks find, and the list is    *)
(* empty exactly when no condition holds; the call does not raise.        *)
C15_ChecksIndependent ==
  IsChecksCall =>
    /\ ~raised
    /\ IF resume_text = <<>> THEN issues = <<>>
       ELSE WarningsAsConditions(Chars(resume_text))

(* the warnings of the second and of the last check without those of the  *)
(* first and the third                                                    *)
C15_Witness ==
  /\ called = "simple_ats_checks"
  /\ issues = <<Issues.images, Issues.short>>

----------------------------------------------------------------------------
(* Properties of the suggestions *)

IsTipsCall == called = "generate_recruiter_tips"

Headlines == {Tips.excellent, Tips.good, Tips.partial, Tips.low}

(* the tiers of the score, in hundredths, with their headlines *)
Tiers ==
  {<<score_pct >= 8000, Tips.excellent>>,
   <<score_pct >= 6000 /\ score_pct < 8000, Tips.good>>,
   <<score_pct >= 4000 /\ score_pct < 6000, Tips.partial>>,
   <<score_pct < 4000, Tips.low>>}

(* C16: the list generate_recruiter_tips returns is not empty, its first  *)
(* element is the headline of the tier of the score (at least 80, at      *)
(* least 60, at least 40, below 40), exactly one tier holds the score,    *)
(* and no headline stands at a later place of the list.                   *)
C16_HeadlineFirst ==
  IsTipsCall =>
    /\ tips # <<>>
    /\ Cardinality({t \in Tiers : t[1]}) = 1
    /\ \A t \in Tiers : t[1] => tips[1] = t[2]
    /\ \A i \in 2..Len(tips) : tips[i] \notin Headlines

(* a score of exactly 60 with further tips after the headline *)
C16_Witness ==
  /\ IsTipsCall
  /\ score_pct = 6000
  /\ tips[1] = Tips.good
  /\ Len(tips) > 1

(* the numeric and percentage values found in the resume text *)
Nums == FindNums(Chars(resume_text))

(* the reminder stands in the list, once, exactly when no value is found *)
ReminderIffNoNums(nums) ==
  /\ (Tips.quantify \in Range(tips)) <=> (nums = <<>>)
  /\ \A i, j \in DOMAIN tips : tips[i] = Tips.quantify /\ tips[j] = Tips.quantify => i = j

(* the tip at place i carries the values nums: it joins a list that      *)
(* holds each of them and is not the list of the missing skills           *)
Echoes(i, nums) ==
  /\ nums # <<>>
  /\ tips[i].text # "Top missing skills to add: "
  /\ Range(nums) \subseteq Range(tips[i].words)

(* the texts of the tips of the other rules of the function *)
OtherTexts ==
  {t.text : t \in Headlines \cup {Tips.address, Tips.email, Tips.phone, Tips.summary,
                                  Tips.experience, Tips.job_title, Tips.education}}
    \cup {"Formatting suggestions: ", "Top missing skills to add: "}

(* C17 as stated: the reminder is appended exactly when no numeric or     *)
(* percentage pattern is found in the resume text, and otherwise the      *)
(* output echoes the values found.                                        *)
C17_Original ==
  IsTipsCall =>
    LET nums == Nums
    IN  /\ ReminderIffNoNums(nums)
        /\ nums # <<>> => \E i \in DOMAIN tips : Echoes(i, nums)

(* C17 amended: the reminder is appended exactly when no numeric or       *)
(* percentage pattern is found in the resume text, and otherwise the      *)
(* output holds nothing about the values found: every other tip is a tip  *)
(* of another rule of the function and none echoes the values.            *)
C17_ReminderOrNothing ==
  IsTipsCall =>
    LET nums == Nums
    IN  /\ ReminderIffNoNums(nums)
        /\ \A i \in DOMAIN tips :
             tips[i] # Tips.quantify => tips[i].text \in OtherTexts /\ ~Echoes(i, nums)

(* a percentage is found and no reminder is given *)
C17_Witness ==
  /\ IsTipsCall
  /\ Nums = <<<<"2", "5", "%">>>>
  /\ Tips.quantify \notin Range(tips)
  /\ Len(tips) > 1

----------------------------------------------------------------------------
(* Properties of registration and login *)

(* C18: register_user returns a pair (bool, message) and raises nothing,  *)
(* whatever its arguments and however the calls of the sessions on the    *)
(* shared table interleave, two registrations of one email that both      *)
(* pass the existence check before either inserts included.               *)
C18_NeverRaises ==
  \A p \in Procs :
    result[p].call = "register_user" =>
      /\ result[p].raised = ""
      /\ result[p].returned => result[p].message # "" /\ result[p].user = NoUser

(* the emails of the rows of a table *)
EmailsOf(table) == {table[i].email : i \in DOMAIN table}

EmailsUnique(table) ==
  \A i, j \in DOMAIN table : table[i].email = table[j].email => i = j

(* the password whose hash a row holds *)
StoredPassword(row) == row.password.digest[2]

(* the step is one of a call of the function call by session p *)
StepOf(p, call) ==
  /\ result'[p].call = call
  /\ <<pc'[p], args'[p], result'[p]>> # <<pc[p], args[p], result[p]>>

AnyEmpty(a) == a.name = "" \/ a.email = "" \/ a.password = ""

(* C19: the table users never holds two rows of one email; a call of      *)
(* register_user that has an empty name, email or password, or whose      *)
(* email is in the table when the call looks it up, returns (False,       *)
(* message) and leaves the table as it is; the table changes only by one  *)
(* row added by a call whose fields are all non-empty and whose email is  *)
(* not in the table, and that call returns (True, "Registration           *)
(* successful."); no other call returns True.                             *)
C19_OneRowPerEmail ==
  [][/\ EmailsUnique(users')
     /\ \A p \in Procs :
          StepOf(p, "register_user") /\ pc[p] = "idle"
            /\ (AnyEmpty(args'[p]) \/ args'[p].email \in EmailsOf(users))
          => /\ result'[p].returned
             /\ ~result'[p].ok
             /\ result'[p].message # ""
             /\ pc'[p] = "idle"
             /\ users' = users
     /\ users' # users =>
          \E p \in Procs :
            /\ StepOf(p, "register_user")
            /\ ~AnyEmpty(args[p])
            /\ args[p].email \notin EmailsOf(users)
            /\ Len(users') = Len(users) + 1
            /\ SubSeq(users', 1, Len(users)) = users
            /\ users'[Len(users')].email = args[p].email
            /\ users'[Len(users')].name = args[p].name
            /\ StoredPassword(users'[Len(users')]) = args[p].password
            /\ result'[p] = Returned("register_user", TRUE, "Registration successful.")
     /\ \A p \in Procs :
          StepOf(p, "register_user") /\ result'[p].ok => users' # users
    ]_vars

(* two rows in the table and a registration refused for its email *)
C19_Witness ==
  /\ Len(users) = 2
  /\ \E p \in Procs :
       /\ result[p] = Returned("register_user", FALSE, "Email already registered.")
       /\ args[p].email \in EmailsOf(users)

(* C20: login_user(email, password) returns (True, user) with that email  *)
(* exactly when a row of the table, stored by a successful registration,  *)
(* holds that email and the hash of that password; it returns (False,     *)
(* "Email and password required.") for an empty email or password,        *)
(* (False, "No such user.") for an email that is not in the table,        *)
(* (False, "Invalid credentials.") for another password; it never         *)
(* changes the table.                                                     *)
C20_LoginMatchesStored ==
  [][\A p \in Procs :
       StepOf(p, "login_user") =>
         LET email == args'[p].email
             password == args'[p].password
             rows == {i \in DOMAIN users : users[i].email = email}
             same == {i \in rows : StoredPassword(users[i]) = password}
             given == email # "" /\ password # ""
         IN  /\ users' = users
             /\ result'[p].returned
             /\ result'[p].ok <=> (given /\ same # {})
             /\ result'[p].ok =>
                  /\ result'[p].user.email = email
                  /\ \E i \in same : result'[p].user.id = users[i].id
                                       /\ result'[p].user.name = users[i].name
             /\ ~given =>
                  result'[p] = Returned("login_user", FALSE, "Email and password required.")
             /\ given /\ rows = {} =>
                  result'[p] = Returned("login_user", FALSE, "No such user.")
             /\ given /\ rows # {} /\ same = {} =>
                  result'[p] = Returned("login_user", FALSE, "Invalid credentials.")
    ]_vars

(* one session is logged in as the second user registered, the other was  *)
(* refused with another password                                          *)
C20_Witness ==
  \E p, q \in Procs :
    /\ result[p].call = "login_user"
    /\ result[p].ok
    /\ result[p].user.id = 2
    /\ result[q] = Returned("login_user", FALSE, "Invalid credentials.")

----------------------------------------------------------------------------
(* Symmetry of the scorers *)

(* C22: the score of a scorer on (A, B) is its score on (B, A): the call  *)
(* on the two texts returns what the same function returns on the texts   *)
(* exchanged, and neither raises.                                         *)
C22_Symmetric ==
  IsScoreCall =>
    LET exchanged == IF called = "compute_similarity_score"
                       THEN compute_similarity_score(jd_text, resume_text, SKLEARN_AVAILABLE)
                       ELSE compute_match_score(jd_text, resume_text)
    IN  /\ ~raised
        /\ ~exchanged.raised
        /\ score = exchanged.value

(* two different texts with a score strictly between 0 and 100 *)
C22_Witness ==
  /\ IsScoreCall
  /\ resume_text # jd_text
  /\ score > 0
  /\ score < 10000

----------------------------------------------------------------------------
(* Properties of the text extraction *)

IsExtractCall == called \in {"extract_file_text", "extract_text_from_uploaded"}

(* the file is named as a PDF, as a Word document *)
NamedPdf(f) == EndsWith(Lower(f.name), Ext(<<"p", "d", "f">>))

NamedDocx(f) ==
  \/ EndsWith(Lower(f.name), Ext(<<"d", "o", "c", "x">>))
  \/ EndsWith(Lower(f.name), Ext(<<"d", "o", "c">>))

(* the function called can parse the file: its library is there and opens it *)
ParsedPdf(f) ==
  NamedPdf(f) /\ f.reader.opens /\ (called = "extract_text_from_uploaded" => libs.PyPDF2)

ParsedDocx(f) == NamedDocx(f) /\ f.document.opens /\ libs.docx

(* the lines of a string: s.split("\n") *)
RECURSIVE Lines(_)
Lines(s) ==
  LET breaks == {i \in DOMAIN s : s[i] = "\n"}
  IN  IF breaks = {} THEN <<s>>
      ELSE LET i == CHOOSE b \in breaks : \A c \in breaks : b <= c
           IN  <<SubSeq(s, 1, i - 1)>> \o Lines(SubSeq(s, i + 1, Len(s)))

(* the texts of the pages of f whose extraction does not fail, in page order *)
TextsOfGoodPages(f) ==
  LET pages == f.reader.pages
      RECURSIVE From(_)
      From(i) == IF i > Len(pages) THEN <<>>
                 ELSE IF pages[i].raises THEN From(i + 1)
                 ELSE <<pages[i].text>> \o From(i + 1)
  IN  From(1)

(* the text returned is the texts of the good pages of f, one per line *)
KeepsGoodPages(f) ==
  LET good == TextsOfGoodPages(f)
  IN  IF good = <<>> THEN extracted = <<>> ELSE Lines(extracted) = good

(* C21 as stated: the document-to-text collaborator converts every         *)
(* extraction failure into an empty string or best-effort text: of None    *)
(* both functions return "", a PDF that cannot be parsed yields "", a DOCX *)
(* that cannot be parsed yields the best-effort decoded bytes, and a PDF   *)
(* page whose extraction fails is skipped while the text of the other      *)
(* pages is kept in page order.                                            *)
C21_Original ==
  IsExtractCall =>
    IF uploaded_file = <<>> THEN extracted = <<>>
    ELSE LET f == uploaded_file[1]
         IN  /\ NamedPdf(f) /\ ~ParsedPdf(f) => extracted = <<>>
             /\ NamedDocx(f) /\ ~ParsedDocx(f) =>
                  extracted = extract_text_from_txt_bytes(f.raw)
             /\ ParsedPdf(f) => KeepsGoodPages(f)

(* C21: the document-to-text collaborator converts every extraction        *)
(* failure into an empty string or best-effort text: of None both          *)
(* functions return "", a PDF that cannot be parsed yields "" from         *)
(* extract_file_text and the best-effort decoded bytes from                *)
(* extract_text_from_uploaded, a DOCX that cannot be parsed yields the     *)
(* best-effort decoded bytes, and a PDF page whose extraction fails is     *)
(* skipped while the text of the other pages is kept in page order, where  *)
(* extract_text_from_uploaded returns the best-effort decoded bytes        *)
(* instead when the text kept is empty.                                    *)
C21_FailuresBecomeText ==
  IsExtractCall =>
    IF uploaded_file = <<>> THEN extracted = <<>>
    ELSE LET f == uploaded_file[1]
             decoded == extract_text_from_txt_bytes(f.raw)
             good == TextsOfGoodPages(f)
             empty == good = <<>> \/ good = << <<>> >>
         IN  /\ NamedPdf(f) /\ ~ParsedPdf(f) =>
                  extracted = IF called = "extract_file_text" THEN <<>> ELSE decoded
             /\ NamedDocx(f) /\ ~ParsedDocx(f) => extracted = decoded
             /\ ParsedPdf(f) =>
                  IF called = "extract_text_from_uploaded" /\ empty
                    THEN extracted = decoded
                    ELSE KeepsGoodPages(f)

(* a PDF of three pages whose second page fails, read by                   *)
(* extract_text_from_uploaded                                              *)
C21_Witness ==
  /\ called = "extract_text_from_uploaded"
  /\ uploaded_file # <<>>
  /\ LET f == uploaded_file[1]
     IN  /\ ParsedPdf(f)
         /\ Len(f.reader.pages) = 3
         /\ f.reader.pages[2].raises
         /\ extracted = <<"p", "\n", "q", "r">>

----------------------------------------------------------------------------
(* Properties of the weighted score and of the final score *)

IsWeightedCall == called \in {"compute_weighted_score", "page_scanner"}

CategoryNames == {"hard", "soft", "verb"}

(* the category c of the comparison requires no keyword *)
NothingRequired(c) == cat_compare[c].matched = <<>> /\ cat_compare[c].missing = <<>>

(* the weighted score is the one of the comparison in which category c    *)
(* requires one keyword and has it matched                                *)
ScoredAsMatched(c) ==
  weighted_score \in compute_weighted_score([cat_compare EXCEPT ![c] = Category(1, 0)])

(* C23: for every comparison result compute_weighted_score returns a      *)
(* value in [0, 100], a category with no required keywords counts as      *)
(* fully satisfied, and the final score of a scan, 0.7 * weighted score + *)
(* 0.3 * similarity score, is also in [0, 100].                           *)
C23_ScoresInRange ==
  /\ IsWeightedCall =>
       /\ weighted_score \in 0..10000
       /\ \A c \in CategoryNames : NothingRequired(c) => ScoredAsMatched(c)
  /\ called = "page_scanner" => final_score \in 0..10000

(* a scan whose comparison requires no soft skill and has every other     *)
(* keyword matched: the weighted score is 100 and the final score the     *)
(* highest there is                                                       *)
C23_Witness ==
  /\ called = "page_scanner"
  /\ NothingRequired("soft")
  /\ cat_compare.hard.matched # <<>>
  /\ cat_compare.hard.missing = <<>>
  /\ cat_compare.verb.missing = <<>>
  /\ weighted_score = 10000
  /\ sim_score = 10000
  /\ final_score = 10000

----------------------------------------------------------------------------
(* Properties of the session *)

(* the entry of scan_history is the result of a scan *)
IsScanResult(e) == "full_resume" \in DOMAIN e /\ "full_jd" \in DOMAIN e

(* the results of the scans in scan_history, the most recent first *)
ScansOf(history) == SelectSeq(history, IsScanResult)

(* a text holds something but whitespace *)
HasText(text) == \E i \in DOMAIN text : ~IsSpaceWord(text[i].w)

(* the resume text a press of Scan finds: the text of the file uploaded,  *)
(* or without a file the text pasted                                      *)
ResumeGiven ==
  IF uploaded_file # <<>> THEN extract_text_from_uploaded(uploaded_file, libs) # <<>>
  ELSE HasText(paste_resume)

JdGiven == HasText(paste_jd)

(* the step is a press of the button Scan *)
ScanPressed == called' = "page_scanner" /\ now' = now + 1

(* a press of Scan with a resume text and a job description stores one    *)
(* result, made of them at the time of the press, as current_result and   *)
(* in front of scan_history; any other press of Scan changes neither, and *)
(* no other action changes current_result                                 *)
C24_Step ==
  IF ScanPressed
    THEN IF ResumeGiven /\ JdGiven
           THEN /\ Len(current_result') = 1
                /\ IsScanResult(current_result'[1])
                /\ current_result'[1].timestamp = now
                /\ HasText(current_result'[1].full_jd)
                /\ current_result'[1].linkedin_suggestions = opt_linkedin
                /\ scan_history' = current_result' \o scan_history
           ELSE UNCHANGED <<current_result, scan_history>>
    ELSE UNCHANGED current_result

(* current_result is None when no scan has stored a result, and the       *)
(* result of the most recent of them otherwise                            *)
C24_State ==
  LET scans == ScansOf(scan_history)
  IN  IF scans = <<>> THEN current_result = <<>> ELSE current_result = <<scans[1]>>

(* C24: after any sequence of UI actions current_result is None if and    *)
(* only if no successful Scan has happened, and otherwise it is the       *)
(* result of the most recent successful Scan; a Scan pressed with empty   *)
(* resume text or empty job description changes neither current_result    *)
(* nor scan_history, and a successful Scan prepends exactly one entry,    *)
(* that same result, to scan_history.                                     *)
C24_CurrentResult == []C24_State /\ [][C24_Step]_vars

(* a successful scan at the first press, then a press of Scan with a      *)
(* whitespace-only resume pasted and no file                              *)
C24_Witness ==
  /\ called = "page_scanner"
  /\ now = 2
  /\ uploaded_file = <<>>
  /\ paste_resume # <<>>
  /\ ~HasText(paste_resume)
  /\ JdGiven
  /\ Len(scan_history) = 1
  /\ current_result = <<scan_history[1]>>
  /\ scan_history[1].timestamp = 0

(* C25: after any sequence of UI actions every entry of scan_history was  *)
(* produced by a successful Scan and carries a numeric score, the entries *)
(* are ordered most recent first, and the first entry equals              *)
(* current_result whenever scan_history is non-empty.                     *)
C25_HistoryOfScans ==
  /\ \A i \in DOMAIN scan_history :
       /\ IsScanResult(scan_history[i])
       /\ IsNumber(scan_history[i].score)
  /\ \A i, j \in DOMAIN scan_history :
       i < j => scan_history[i].timestamp >= scan_history[j].timestamp
  /\ scan_history # <<>> => current_result = <<scan_history[1]>>

====
